---- MODULE Spec2Model ----
(***************************************************************************)
(* commitron: the message normalisation pipeline of                        *)
(* ai.GenerateCommitMessage (pkg/ai/ai.go), from the provider's response   *)
(* text to the formatted commit message.                                   *)
(*                                                                         *)
(* A Go string is a sequence of one-character strings (ASCII only, so a    *)
(* byte, a rune and a character coincide).  Offsets are 0-based as in Go:  *)
(* Slice(s, lo, hi) is s[lo:hi].  Intermediate values are passed as        *)
(* operator parameters, which TLC evaluates once.                          *)
(***************************************************************************)
EXTENDS Integers, Sequences, FiniteSets, TLC

\* One call of GenerateCommitMessage, from the provider's answer on.
VARIABLES cfg, files, content, rawResponse, parsed, commitMsg, subjectLength,
          verr, nValidate, nFix, stages, result, pc

\* The token-aware processing of the diff (ai.go 876-934, tokenizer.go).
VARIABLES changes, ctx, vocabulary, inputTokens, maxTokens, strategy, processed, tpc

\* One run of the generate command (cmd, git).
VARIABLES repo, dryRun, stagedFiles, message, calls, cmdErr, cpc

\* One run of the init command (cmd).
VARIABLES configPath, force, home, disk, targetPath, initErr, ipc

\* One call of extractJSON (ai.go 478-500).
VARIABLES braceText, extracted, xpc

messageVars == <<cfg, files, content, rawResponse, parsed, commitMsg, subjectLength,
                 verr, nValidate, nFix, stages, result, pc>>

tokenVars == <<changes, ctx, vocabulary, inputTokens, maxTokens, strategy, processed,
               tpc>>

cmdVars == <<repo, dryRun, stagedFiles, message, calls, cmdErr, cpc>>

initVars == <<configPath, force, home, disk, targetPath, initErr, ipc>>

extractVars == <<braceText, extracted, xpc>>

vars == <<messageVars, tokenVars, cmdVars, initVars, extractVars>>

-----------------------------------------------------------------------------
(* Go's strings package on sequences of characters.                        *)

SetMin(S) == CHOOSE x \in S : \A y \in S : x <= y

SetMax(S) == CHOOSE x \in S : \A y \in S : x >= y

MinOrNone(S) == IF S = {} THEN -1 ELSE SetMin(S)

MaxOrNone(S) == IF S = {} THEN -1 ELSE SetMax(S)

Slice(s, lo, hi) == SubSeq(s, lo + 1, hi)

SliceFrom(s, lo) == SubSeq(s, lo + 1, Len(s))

\* The bounds of s[lo:hi] are in range (otherwise Go panics).
SliceOK(s, lo, hi) == 0 <= lo /\ lo <= hi /\ hi <= Len(s)

HasPrefix(s, p) == Len(s) >= Len(p) /\ SubSeq(s, 1, Len(p)) = p

HasSuffix(s, p) == Len(s) >= Len(p) /\ SubSeq(s, Len(s) - Len(p) + 1, Len(s)) = p

Index(s, sub) ==
    MinOrNone({i \in 0..(Len(s) - Len(sub)) : Slice(s, i, i + Len(sub)) = sub})

Contains(s, sub) == \E i \in 0..(Len(s) - Len(sub)) : Slice(s, i, i + Len(sub)) = sub

ContainsAny(s, chars) == \E i \in 1..Len(s) : s[i] \in chars

IsSpace(c) == c \in {" ", "\n", "\t", "\r"}

TrimTo(s, keep) == IF keep = {} THEN <<>> ELSE SubSeq(s, SetMin(keep), SetMax(keep))

TrimSpace(s) == TrimTo(s, {i \in 1..Len(s) : ~IsSpace(s[i])})

TrimPrefix(s, p) == IF HasPrefix(s, p) THEN SliceFrom(s, Len(p)) ELSE s

TrimSuffix(s, p) == IF HasSuffix(s, p) THEN Slice(s, 0, Len(s) - Len(p)) ELSE s

UpperLetters == <<"A","B","C","D","E","F","G","H","I","J","K","L","M","N","O","P","Q","R","S","T","U","V","W","X","Y","Z">>

LowerLetters == <<"a","b","c","d","e","f","g","h","i","j","k","l","m","n","o","p","q","r","s","t","u","v","w","x","y","z">>

IsUpper(c) == \E i \in 1..Len(UpperLetters) : UpperLetters[i] = c

ToLowerChar(c) ==
    IF IsUpper(c)
    THEN LowerLetters[CHOOSE i \in 1..Len(UpperLetters) : UpperLetters[i] = c]
    ELSE c

ToLower(s) == [i \in 1..Len(s) |-> ToLowerChar(s[i])]

RECURSIVE Split(_, _)
SplitAt(s, sep, i) ==
    IF i < 0 THEN <<s>>
    ELSE <<Slice(s, 0, i)>> \o Split(SliceFrom(s, i + Len(sep)), sep)

Split(s, sep) == SplitAt(s, sep, Index(s, sep))

\* strings.SplitN(s, sep, 2)
SplitN2At(s, sep, i) ==
    IF i < 0 THEN <<s>> ELSE <<Slice(s, 0, i), SliceFrom(s, i + Len(sep))>>

SplitN2(s, sep) == SplitN2At(s, sep, Index(s, sep))

RECURSIVE Join(_, _)
Join(parts, sep) ==
    IF Len(parts) = 0 THEN <<>>
    ELSE IF Len(parts) = 1 THEN parts[1]
    ELSE parts[1] \o sep \o Join(Tail(parts), sep)

RECURSIVE Concat(_)
Concat(parts) == IF Len(parts) = 0 THEN <<>> ELSE parts[1] \o Concat(Tail(parts))

RECURSIVE ReplaceAll(_, _, _)
ReplaceAt(s, old, new, i) ==
    IF i < 0 THEN s
    ELSE Slice(s, 0, i) \o new \o ReplaceAll(SliceFrom(s, i + Len(old)), old, new)

ReplaceAll(s, old, new) == ReplaceAt(s, old, new, Index(s, old))

Digits == <<"0","1","2","3","4","5","6","7","8","9">>

\* fmt.Sprintf("%d", n) for n >= 0
RECURSIVE Itoa(_)
Itoa(n) ==
    IF n < 10 THEN <<Digits[n + 1]>>
    ELSE Itoa(n \div 10) \o <<Digits[(n % 10) + 1]>>

\* The character U+0060, which the TLA+ lexer does not take inside a string.
Backtick == "U+0060"

Nil == "nil"

\* The zero CommitMessage.
EmptyMsg == [Type |-> <<>>, Scope |-> <<>>, Subject |-> <<>>, Body |-> <<>>]

-----------------------------------------------------------------------------
(* encoding/json's Unmarshal into a CommitMessage, for the JSON texts the  *)
(* model feeds it: null, or an object whose member values are strings or   *)
(* null.  Any other top-level value cannot be stored in the struct and any *)
(* other syntax is malformed: both are errors.  Positions are 1-based.     *)

\* The text p stands at position i of s.
StartsAt(s, i, p) == i + Len(p) - 1 <= Len(s) /\ SubSeq(s, i, i + Len(p) - 1) = p

JSONFail == [ok |-> FALSE, msg |-> EmptyMsg, next |-> 0]

ScanFail == [ok |-> FALSE, val |-> <<>>, next |-> 0]

RECURSIVE SkipSpace(_, _)
SkipSpace(s, i) == IF i <= Len(s) /\ IsSpace(s[i]) THEN SkipSpace(s, i + 1) ELSE i

\* The string literal whose opening quote precedes position i; j is the
\* position of the first character from i on that is not taken literally
\* (-1: none), acc the decoded characters before i.
RECURSIVE ScanString(_, _, _)
ScanStringTo(s, i, acc, j) ==
    IF j < 0 THEN ScanFail
    ELSE IF s[j] = "\"" THEN [ok |-> TRUE, val |-> acc \o SubSeq(s, i, j - 1), next |-> j + 1]
    ELSE IF s[j] = "\\"
         THEN IF j + 1 > Len(s) THEN ScanFail
              ELSE IF s[j + 1] = "n"
                   THEN ScanString(s, j + 2, acc \o SubSeq(s, i, j - 1) \o <<"\n">>)
              ELSE IF s[j + 1] = "t"
                   THEN ScanString(s, j + 2, acc \o SubSeq(s, i, j - 1) \o <<"\t">>)
              ELSE IF s[j + 1] \in {"\"", "\\", "/"}
                   THEN ScanString(s, j + 2, acc \o SubSeq(s, i, j - 1) \o <<s[j + 1]>>)
              ELSE ScanFail
    ELSE ScanFail

ScanString(s, i, acc) ==
    ScanStringTo(s, i, acc,
                 MinOrNone({j \in i..Len(s) : s[j] \in {"\"", "\\", "\n", "\t", "\r"}}))

\* Field names match the json tags case-insensitively; unknown keys are ignored.
SetFieldLower(msg, k, val) ==
    IF k = <<"t","y","p","e">> THEN [msg EXCEPT !.Type = val]
    ELSE IF k = <<"s","c","o","p","e">> THEN [msg EXCEPT !.Scope = val]
    ELSE IF k = <<"s","u","b","j","e","c","t">> THEN [msg EXCEPT !.Subject = val]
    ELSE IF k = <<"b","o","d","y">> THEN [msg EXCEPT !.Body = val]
    ELSE msg

SetField(msg, key, val) == SetFieldLower(msg, ToLower(key), val)

\* The members of an object, from the opening quote of a key at position i.
RECURSIVE DecodeMembers(_, _, _)

\* After a member's value, at position e: the end of the object or a comma.
AfterValue(s, msg, e) ==
    IF e > Len(s) THEN JSONFail
    ELSE IF s[e] = "}" THEN [ok |-> TRUE, msg |-> msg, next |-> e + 1]
    ELSE IF s[e] = "," THEN DecodeMembers(s, SkipSpace(s, e + 1), msg)
    ELSE JSONFail

StringValue(s, msg, key, v) ==
    IF ~v.ok THEN JSONFail
    ELSE AfterValue(s, SetField(msg, key, v.val), SkipSpace(s, v.next))

MemberValue(s, msg, key, vpos) ==
    IF StartsAt(s, vpos, <<"n","u","l","l">>) THEN AfterValue(s, msg, SkipSpace(s, vpos + 4))
    ELSE IF vpos <= Len(s) /\ s[vpos] = "\""
         THEN StringValue(s, msg, key, ScanString(s, vpos + 1, <<>>))
    ELSE JSONFail

AfterColon(s, msg, key, c) ==
    IF c > Len(s) \/ s[c] # ":" THEN JSONFail
    ELSE MemberValue(s, msg, key, SkipSpace(s, c + 1))

AfterKey(s, msg, k) ==
    IF ~k.ok THEN JSONFail
    ELSE AfterColon(s, msg, k.val, SkipSpace(s, k.next))

DecodeMembers(s, i, msg) ==
    IF i > Len(s) \/ s[i] # "\"" THEN JSONFail
    ELSE AfterKey(s, msg, ScanString(s, i + 1, <<>>))

\* After "{" and white space, at position j.
DecodeObject(s, j) ==
    IF j <= Len(s) /\ s[j] = "}"
    THEN [ok |-> TRUE, msg |-> EmptyMsg, next |-> j + 1]
    ELSE DecodeMembers(s, j, EmptyMsg)

\* The JSON value at position i.
DecodeValue(s, i) ==
    IF i > Len(s) THEN JSONFail
    ELSE IF StartsAt(s, i, <<"n","u","l","l">>) THEN [ok |-> TRUE, msg |-> EmptyMsg, next |-> i + 4]
    ELSE IF s[i] = "{" THEN DecodeObject(s, SkipSpace(s, i + 1))
    ELSE JSONFail

\* Only white space may follow the value.
DecodeEnd(s, value) ==
    IF value.ok /\ SkipSpace(s, value.next) > Len(s)
    THEN [ok |-> TRUE, msg |-> value.msg]
    ELSE [ok |-> FALSE, msg |-> EmptyMsg]

\* json.Unmarshal([]byte(s), &msg) with msg the zero CommitMessage:
\* [ok, msg]; ok = FALSE is a non-nil error.
Unmarshal(s) == DecodeEnd(s, DecodeValue(s, SkipSpace(s, 1)))

-----------------------------------------------------------------------------
(* Parsing the response: ai.go, ParseCommitMessageJSON and its helpers.    *)

\* The loop of extractJSON: the offset of the brace that closes depth 1, or -1.
\* Only braces change the loop's state, so it is followed from brace to
\* brace: e is the offset of the first brace at or after end (-1: none).
RECURSIVE MatchBrace(_, _, _)
MatchBraceAt(text, depth, e) ==
    IF e < 0 THEN -1
    ELSE IF text[e + 1] = "{" THEN MatchBrace(text, e + 1, depth + 1)
    ELSE IF depth - 1 = 0 THEN e
    ELSE MatchBrace(text, e + 1, depth - 1)

MatchBrace(text, end, depth) ==
    MatchBraceAt(text, depth,
                 MinOrNone({e \in end..(Len(text) - 1) : text[e + 1] \in {"{", "}"}}))

ExtractTo(text, start, end) == IF end < 0 THEN <<>> ELSE Slice(text, start, end + 1)

ExtractFrom(text, start) ==
    IF start = -1 THEN <<>> ELSE ExtractTo(text, start, MatchBrace(text, start + 1, 1))

extractJSON(text) == ExtractFrom(text, Index(text, <<"{">>))

\* The scope between the parentheses of typeScope, when there is one.
ScopeFields(typeScope, subj, scopeStart, scopeEnd) ==
    IF scopeStart > 0 /\ scopeEnd > scopeStart
    THEN [Type |-> Slice(typeScope, 0, scopeStart),
          Scope |-> Slice(typeScope, scopeStart + 1, scopeEnd),
          Subject |-> subj, Body |-> <<>>]
    ELSE [Type |-> typeScope, Scope |-> <<>>, Subject |-> subj, Body |-> <<>>]

SplitAtColon(subject, idx) ==
    ScopeFields(Slice(subject, 0, idx), TrimSpace(SliceFrom(subject, idx + 1)),
                Index(Slice(subject, 0, idx), <<"(">>), Index(Slice(subject, 0, idx), <<")">>))

\* "type(scope): subject" split at the first colon (its offset is > 0).
SplitTypeScope(subject) == SplitAtColon(subject, Index(subject, <<":">>))

\* Offset of the last line that holds the marker, or -1 (the marker loop).
SubjectIndex(lines) ==
    MaxOrNone({i \in 0..(Len(lines) - 1) : Contains(lines[i + 1], <<"[","S","U","B","J","E","C","T","]">>)})

BodyIndex(lines) ==
    MaxOrNone({i \in 0..(Len(lines) - 1) :
                  /\ ~Contains(lines[i + 1], <<"[","S","U","B","J","E","C","T","]">>)
                  /\ Contains(lines[i + 1], <<"[","B","O","D","Y","]">>)})

\* The line after the [SUBJECT] marker, cleaned, as a header.
MarkedHeader(subject) ==
    IF Index(subject, <<":">>) > 0 THEN SplitTypeScope(subject)
    ELSE [EmptyMsg EXCEPT !.Subject = subject]

\* The first line, trimmed, as a header.
FirstLineHeader(subject) ==
    IF HasPrefix(subject, <<":"," ">>)
    THEN [EmptyMsg EXCEPT !.Type = <<"c","h","o","r","e">>,
                          !.Subject = TrimSpace(SliceFrom(subject, 2))]
    ELSE IF Index(subject, <<":">>) > 0 THEN SplitTypeScope(subject)
    ELSE [EmptyMsg EXCEPT !.Type = <<"c","h","o","r","e">>, !.Subject = subject]

DefaultType_Kept(m) == m

DefaultType(m) == IF m.Type = <<>> THEN [m EXCEPT !.Type = <<"c","h","o","r","e">>] ELSE m

ParseHeaderAt(lines, subjectIndex) ==
    DefaultType(IF subjectIndex >= 0 /\ subjectIndex < Len(lines) - 1
                THEN MarkedHeader(TrimSpace(ReplaceAll(lines[subjectIndex + 2],
                                                       <<"[","S","U","B","J","E","C","T","]">>, <<>>)))
                ELSE FirstLineHeader(TrimSpace(lines[1])))

\* Type, Scope and Subject of the text (Body still empty).
ParseHeader(lines) == ParseHeaderAt(lines, SubjectIndex(lines))

RECURSIVE DropLeadingBlank(_)
DropLeadingBlank(ls) ==
    IF Len(ls) > 0 /\ TrimSpace(ls[1]) = <<>> THEN DropLeadingBlank(Tail(ls)) ELSE ls

NonBlank(l) == TrimSpace(l) # <<>>

\* blank: the offsets >= 1 of the blank lines.
UnmarkedFrom(lines, blank) ==
    IF blank # {}
    THEN SelectSeq(SliceFrom(lines, SetMin(blank) + 1), NonBlank)
    ELSE IF Len(lines) > 2
         THEN SliceFrom(lines, IF TrimSpace(lines[2]) = <<>> THEN 2 ELSE 1)
    ELSE <<>>

\* The body lines of a text without a usable [BODY] marker.
UnmarkedBodyLines(lines) ==
    UnmarkedFrom(lines, {i \in 1..(Len(lines) - 1) : TrimSpace(lines[i + 1]) = <<>>})

ParseBodyAt(lines, bodyIndex) ==
    IF bodyIndex >= 0 /\ bodyIndex < Len(lines) - 1
    THEN Join(DropLeadingBlank(SliceFrom(lines, bodyIndex + 1)), <<"\n">>)
    ELSE IF Len(lines) > 1 THEN Join(UnmarkedBodyLines(lines), <<"\n">>)
    ELSE <<>>

\* The raw Body text before clean-up.
ParseBody(lines) == ParseBodyAt(lines, BodyIndex(lines))

IsPlaceholderLower(low) ==
    \/ Contains(low, <<"<","d","e","s","c","r","i","p","t","i","v","e"," ","b","o","d","y">>)
    \/ Contains(low, <<"e","x","p","l","a","n","a","t">>)
    \/ Contains(low, <<"<","c","o","m","m","i","t"," ","m","e","s","s","a","g","e",">">>)
    \/ Contains(low, <<"<","o","p","t","i","o","n","a","l"," ","b","o","d","y",">">>)

IsPlaceholder(body) == IsPlaceholderLower(ToLower(body))

DropPlaceholder(body) == IF IsPlaceholder(body) THEN <<>> ELSE body

\* "Ensure body is properly separated from subject".
Separate(b) == IF ~Contains(b, <<"\n","\n">>) THEN <<"\n","\n">> \o b ELSE b

CleanBody(body) ==
    TrimSpace(IF body = <<>> THEN body
              ELSE Separate(
                     TrimPrefix(TrimSpace(
                       TrimPrefix(TrimSpace(
                         ReplaceAll(ReplaceAll(DropPlaceholder(body),
                                               <<Backtick,Backtick,Backtick>>, <<>>),
                                    <<"[","B","O","D","Y","]">>, <<>>)),
                         <<"B","o","d","y",":">>)),
                       <<"b","o","d","y",":">>)))

ParseLines(lines) == [ParseHeader(lines) EXCEPT !.Body = CleanBody(ParseBody(lines))]

parseTextCommitMessage(text) == ParseLines(Split(text, <<"\n">>))

\* Strategy (c), after both decodes failed.
TryText(extractedMsg) ==
    IF extractedMsg.Subject = <<>> /\ extractedMsg.Type = <<>>
    THEN [msg |-> extractedMsg, err |-> "failed to parse response as JSON",
          strategy |-> "text"]
    ELSE [msg |-> extractedMsg, err |-> Nil, strategy |-> "text"]

\* Strategy (b), after (a) did not return.
TryWhole(response, b) ==
    IF b.ok THEN [msg |-> b.msg, err |-> Nil, strategy |-> "whole"]
    ELSE TryText(parseTextCommitMessage(response))

\* A variant that never uses the extracted object.
TryExtract_Skipped(response, jsonStr, a) == TryWhole(response, Unmarshal(response))

\* Strategy (a): a is the decode of the extracted object.
TryExtract(response, jsonStr, a) ==
    IF jsonStr # <<>> /\ a.ok
    THEN [msg |-> a.msg, err |-> Nil, strategy |-> "extract"]
    ELSE TryWhole(response, Unmarshal(response))

Strategies(response, jsonStr) == TryExtract(response, jsonStr, Unmarshal(jsonStr))

\* The strategies in their order: [msg, err, strategy].
ParseCommitMessageJSON(response) == Strategies(response, extractJSON(response))

-----------------------------------------------------------------------------
(* Validation and repair: ai.go, validateConventionalCommit,               *)
(* fixConventionalCommitIssues, isValidCommitType.                         *)

AllowedTypes ==
    {<<"f","e","a","t">>, <<"f","i","x">>, <<"d","o","c","s">>, <<"s","t","y","l","e">>, <<"r","e","f","a","c","t","o","r">>, <<"p","e","r","f">>, <<"t","e","s","t">>,
     <<"b","u","i","l","d">>, <<"c","i">>, <<"c","h","o","r","e">>, <<"r","e","v","e","r","t">>}

isValidCommitType(t) == t \in AllowedTypes

GenericSubjects ==
    {<<"u","p","d","a","t","e">>, <<"f","i","x">>, <<"c","h","a","n","g","e">>, <<"m","o","d","i","f","y">>, <<"a","d","d">>, <<"r","e","m","o","v","e">>, <<"d","e","l","e","t","e">>}

ScopeSpecials ==
    {"!", "@", "#", "$", "%", "^", "&", "*", "(", ")", "_", "+", "=", "{", "}",
     "[", "]", "|", "\\", ":", ";", "\"", "'", "<", ">", ",", ".", "?", "/", "~",
     Backtick}

ValidateTrimmedBody(body, trimmedBody, low) ==
    IF trimmedBody = <<>> THEN "commit body is required"
    ELSE IF IsPlaceholderLower(low) THEN "commit body contains placeholder text"
    ELSE IF Len(trimmedBody) < 10 THEN "commit body is too short"
    ELSE IF ~Contains(body, <<"\n","\n">>)
         THEN "commit body must be separated from subject by a blank line"
    ELSE IF \/ Contains(low, <<"t","h","i","s"," ","c","o","d","e">>)
            \/ Contains(low, <<"t","h","e"," ","c","h","a","n","g","e","s">>)
            \/ Contains(low, <<"t","h","i","s"," ","c","o","m","m","i","t">>)
         THEN "commit body should not start with phrases"
    ELSE IF Contains(trimmedBody, <<"f","i","l","e",":">>) \/ Contains(trimmedBody, <<"f","i","l","e","s",":">>)
         THEN "commit body should not be a list of files"
    ELSE Nil

\* The rules on the body when include_body is set: an error text or Nil.
ValidateBody(body) == ValidateTrimmedBody(body, TrimSpace(body), ToLower(TrimSpace(body)))

\* The rules on a non-empty scope: an error text or Nil.
ValidateScope(scope) ==
    IF scope # ToLower(scope) THEN "commit scope must be lowercase"
    ELSE IF Contains(scope, <<" ">>) THEN "commit scope should not contain spaces"
    ELSE IF ContainsAny(scope, ScopeSpecials)
         THEN "commit scope should not contain special characters"
    ELSE IF ToLower(scope) \in GenericSubjects THEN "commit scope is too generic"
    ELSE Nil

\* The rules after those on type and subject; bodyErr is the body's verdict.
BodyThenScope(msg, bodyErr) ==
    IF bodyErr # Nil THEN bodyErr
    ELSE IF msg.Scope # <<>> THEN ValidateScope(msg.Scope)
    ELSE Nil

\* The error text of the first rule the message breaks, or Nil.
validateConventionalCommit(msg, c) ==
    IF msg.Type = <<>> THEN "commit type is required"
    ELSE IF msg.Type # ToLower(msg.Type) THEN "commit type must be lowercase"
    ELSE IF msg.Type \notin AllowedTypes THEN "commit type is not allowed"
    ELSE IF msg.Subject = <<>> THEN "commit subject is required"
    ELSE IF HasSuffix(msg.Subject, <<".">>)
         THEN "commit subject should not end with a period"
    ELSE IF Len(msg.Subject) > 0 /\ IsUpper(msg.Subject[1])
         THEN "commit subject should not start with a capital letter"
    ELSE IF Contains(msg.Subject, <<"\n">>)
         THEN "commit subject should not contain newlines"
    ELSE IF ToLower(msg.Subject) \in GenericSubjects
         THEN "commit subject is too generic"
    ELSE BodyThenScope(msg, IF c.IncludeBody THEN ValidateBody(msg.Body) ELSE Nil)

\* The map typeCorrections; t when t is no key of it.
TypeCorrection(t) ==
    IF t = <<"f","e","a","t","u","r","e">> THEN <<"f","e","a","t">>
    ELSE IF t = <<"b","u","g","f","i","x">> THEN <<"f","i","x">>
    ELSE IF t \in {<<"d","o","c","u","m","e","n","t">>, <<"d","o","c","u","m","e","n","t","a","t","i","o","n">>} THEN <<"d","o","c","s">>
    ELSE IF t = <<"s","t","y","l","i","n","g">> THEN <<"s","t","y","l","e">>
    ELSE IF t = <<"r","e","f","a","c","t","o","r","i","n","g">> THEN <<"r","e","f","a","c","t","o","r">>
    ELSE IF t = <<"p","e","r","f","o","r","m","a","n","c","e">> THEN <<"p","e","r","f">>
    ELSE IF t \in {<<"t","e","s","t","i","n","g">>, <<"t","e","s","t","s">>} THEN <<"t","e","s","t">>
    ELSE IF t = <<"b","u","i","l","d","i","n","g">> THEN <<"b","u","i","l","d">>
    ELSE IF t = <<"m","a","i","n","t","e","n","a","n","c","e">> THEN <<"c","h","o","r","e">>
    ELSE t

\* The map genericSubjects of the repair; s when s is no key of it.
GenericReplacement(s) ==
    IF s = <<"u","p","d","a","t","e">> THEN <<"i","m","p","r","o","v","e">>
    ELSE IF s = <<"c","h","a","n","g","e">> THEN <<"m","o","d","i","f","y">>
    ELSE IF s = <<"m","o","d","i","f","y">> THEN <<"e","n","h","a","n","c","e">>
    ELSE IF s = <<"a","d","d">> THEN <<"i","m","p","l","e","m","e","n","t">>
    ELSE IF s = <<"r","e","m","o","v","e">> THEN <<"d","e","l","e","t","e">>
    ELSE IF s = <<"d","e","l","e","t","e">> THEN <<"r","e","m","o","v","e">>
    ELSE IF s = <<"f","i","x">> THEN <<"r","e","s","o","l","v","e">>
    ELSE s

RemovePhrases ==
    <<<<"t","h","i","s"," ","c","o","d","e">>, <<"t","h","e"," ","c","h","a","n","g","e","s">>, <<"t","h","i","s"," ","c","o","m","m","i","t">>, <<"t","h","e"," ","c","o","d","e">>, <<"t","h","e"," ","f","i","l","e">>,
      <<"t","h","e"," ","f","i","l","e","s">>, <<"t","h","e"," ","c","h","a","n","g","e","s"," ","m","a","d","e">>, <<"t","h","e"," ","c","h","a","n","g","e","s"," ","i","n","c","l","u","d","e">>,
      <<"t","h","e"," ","c","h","a","n","g","e","s"," ","m","a","d","e"," ","t","o">>>>

StripFirstHit(line, hits) ==
    IF hits = {} THEN line
    ELSE TrimSpace(TrimPrefix(line, RemovePhrases[SetMin(hits)]))

StripLower(line, firstLine) ==
    StripFirstHit(line, {i \in 1..Len(RemovePhrases) : HasPrefix(firstLine, RemovePhrases[i])})

\* The first line of the body without the first listed phrase it starts with.
StripPhrase(line) == StripLower(line, ToLower(line))

IsFileListLower(low) ==
    \/ Contains(low, <<"f","i","l","e",":">>)
    \/ Contains(low, <<"f","i","l","e","s",":">>)
    \/ Contains(low, <<"c","h","a","n","g","e","d"," ","f","i","l","e","s",":">>)

KeepLine(line) == ~IsFileListLower(ToLower(line))

StripFirstLine(bodyLines) == [bodyLines EXCEPT ![1] = StripPhrase(bodyLines[1])]

FixBody(body) ==
    IF body = <<>> THEN body
    ELSE Separate(TrimSpace(Join(SelectSeq(StripFirstLine(Split(body, <<"\n">>)), KeepLine),
                                 <<"\n">>)))

DropPeriod(subject) ==
    IF HasSuffix(subject, <<".">>) THEN Slice(subject, 0, Len(subject) - 1) ELSE subject

LowerFirst(subject) ==
    IF Len(subject) > 0 /\ IsUpper(subject[1])
    THEN [subject EXCEPT ![1] = ToLowerChar(subject[1])]
    ELSE subject

ReplaceGeneric(subject, low) ==
    IF GenericReplacement(low) # low THEN GenericReplacement(low) ELSE subject

ReplaceGenericSubject(subject) == ReplaceGeneric(subject, ToLower(subject))

FixSubject(subject) == ReplaceGenericSubject(LowerFirst(DropPeriod(subject)))

FixScope(scope) ==
    IF scope = <<>> THEN scope ELSE GenericReplacement(ToLower(scope))

fixConventionalCommitIssues(msg) ==
    [Type |-> TypeCorrection(ToLower(msg.Type)),
     Scope |-> FixScope(msg.Scope),
     Subject |-> FixSubject(msg.Subject),
     Body |-> FixBody(msg.Body)]

-----------------------------------------------------------------------------
(* The default body: ai.go, generateDefaultBody, with path/filepath's Ext  *)
(* and Base.                                                               *)

LastSlash(path, upto) == SetMax({0} \cup {i \in 1..upto : path[i] = "/"})

ExtAt(path, dots) == IF dots = {} THEN <<>> ELSE SubSeq(path, SetMax(dots), Len(path))

\* filepath.Ext: from the last dot of the last path element, or empty.
Ext(path) ==
    ExtAt(path, {i \in (LastSlash(path, Len(path)) + 1)..Len(path) : path[i] = "."})

BaseTo(path, last) == SubSeq(path, LastSlash(path, last) + 1, last)

BaseOf(path, keep) ==
    IF path = <<>> THEN <<".">>
    ELSE IF keep = {} THEN <<"/">>
    ELSE BaseTo(path, SetMax(keep))

\* filepath.Base: the last path element, trailing slashes dropped.
Base(path) == BaseOf(path, {i \in 1..Len(path) : path[i] # "/"})

SingleFileBody(fileExt, fileName) ==
    IF fileExt = <<>> THEN <<"U","p","d","a","t","e"," ">> \o fileName
    ELSE IF fileExt = <<"g","o">>
         THEN <<"U","p","d","a","t","e"," ">> \o fileName \o <<" ","w","i","t","h"," ","i","m","p","r","o","v","e","d"," ","G","o"," ","c","o","d","e"," ","i","m","p","l","e","m","e","n","t","a","t","i","o","n">>
    ELSE IF fileExt \in {<<"j","s">>, <<"j","s","x">>, <<"t","s">>, <<"t","s","x">>}
         THEN <<"E","n","h","a","n","c","e"," ">> \o fileName \o <<" ","w","i","t","h"," ","b","e","t","t","e","r"," ","J","a","v","a","S","c","r","i","p","t","/","T","y","p","e","S","c","r","i","p","t"," ","f","u","n","c","t","i","o","n","a","l","i","t","y">>
    ELSE IF fileExt = <<"p","y">> THEN <<"U","p","d","a","t","e"," ","P","y","t","h","o","n"," ","i","m","p","l","e","m","e","n","t","a","t","i","o","n"," ","i","n"," ">> \o fileName
    ELSE IF fileExt \in {<<"m","d">>, <<"m","a","r","k","d","o","w","n">>}
         THEN <<"I","m","p","r","o","v","e"," ","d","o","c","u","m","e","n","t","a","t","i","o","n"," ","i","n"," ">> \o fileName
    ELSE IF fileExt \in {<<"c","s","s">>, <<"s","c","s","s">>, <<"s","a","s","s">>} THEN <<"U","p","d","a","t","e"," ","s","t","y","l","e","s"," ","i","n"," ">> \o fileName
    ELSE IF fileExt = <<"h","t","m","l">> THEN <<"U","p","d","a","t","e"," ","H","T","M","L"," ","t","e","m","p","l","a","t","e"," ","i","n"," ">> \o fileName
    ELSE IF fileExt \in {<<"j","s","o","n">>, <<"y","a","m","l">>, <<"y","m","l">>}
         THEN <<"U","p","d","a","t","e"," ","c","o","n","f","i","g","u","r","a","t","i","o","n"," ","i","n"," ">> \o fileName
    ELSE <<"U","p","d","a","t","e"," ">> \o fileName \o <<" ","f","i","l","e">>

\* A variant without the fixed sentence for an empty file list.
generateDefaultBody_NoFallback(fs) ==
    IF Len(fs) = 1 THEN SingleFileBody(TrimPrefix(Ext(fs[1]), <<".">>), Base(fs[1]))
    ELSE IF Len(fs) > 1
    THEN <<"U","p","d","a","t","e"," ">> \o Itoa(Len(fs)) \o <<" ","f","i","l","e","s"," ","w","i","t","h"," ","n","e","c","e","s","s","a","r","y"," ","c","h","a","n","g","e","s">>
    ELSE <<>>

generateDefaultBody(fs) ==
    IF Len(fs) = 1 THEN SingleFileBody(TrimPrefix(Ext(fs[1]), <<".">>), Base(fs[1]))
    ELSE IF Len(fs) > 1
    THEN <<"U","p","d","a","t","e"," ">> \o Itoa(Len(fs)) \o <<" ","f","i","l","e","s"," ","w","i","t","h"," ","n","e","c","e","s","s","a","r","y"," ","c","h","a","n","g","e","s">>
    ELSE <<"U","p","d","a","t","e"," ","c","o","d","e"," ","w","i","t","h"," ","n","e","c","e","s","s","a","r","y"," ","c","h","a","n","g","e","s">>

-----------------------------------------------------------------------------
(* Rendering: ai.go, FormatCommitMessage.                                  *)

Conventional == "conventional"

\* The first line of the rendering.
FormatHeader_AlwaysComposed(msg, c) ==
    IF msg.Scope # <<>>
    THEN msg.Type \o <<"(">> \o msg.Scope \o <<")",":"," ">> \o msg.Subject
    ELSE msg.Type \o <<":"," ">> \o msg.Subject

FormatHeader(msg, c) ==
    IF c.Convention = Conventional
    THEN IF msg.Scope # <<>>
         THEN msg.Type \o <<"(">> \o msg.Scope \o <<")",":"," ">> \o msg.Subject
         ELSE msg.Type \o <<":"," ">> \o msg.Subject
    ELSE msg.Subject

Bullet(line) ==
    IF line = <<>> THEN <<>>
    ELSE IF ~HasPrefix(line, <<"-"," ">>) /\ ~HasPrefix(line, <<"*"," ">>)
         THEN <<"-"," ">> \o line \o <<"\n">>
    ELSE line \o <<"\n">>

\* One body line as a bullet line, a blank line as nothing.
BulletLine(l) == Bullet(TrimSpace(l))

FormatBody(bodyLines) == Concat([i \in 1..Len(bodyLines) |-> BulletLine(bodyLines[i])])

FormatCommitMessage(msg, c) ==
    IF c.IncludeBody /\ msg.Body # <<>>
    THEN TrimSuffix(FormatHeader(msg, c) \o <<"\n","\n">>
                    \o FormatBody(Split(TrimSpace(msg.Body), <<"\n">>)), <<"\n">>)
    ELSE FormatHeader(msg, c)

-----------------------------------------------------------------------------
(* Length enforcement: ai.go, GenerateCommitMessage, lines 1044-1168.      *)
(* A slice expression whose bounds are out of range panics; the operators  *)
(* return [panic, msg, subjectLength].                                     *)

\* len("type(scope): subject") or len("type: subject"), as the code adds it up.
HeaderLength(msg) ==
    IF msg.Scope # <<>>
    THEN Len(msg.Type) + Len(msg.Scope) + Len(msg.Subject) + 4
    ELSE Len(msg.Type) + Len(msg.Subject) + 2

ComputeSubjectLength(msg, c) ==
    IF c.Convention = Conventional /\ msg.Type # <<>>
    THEN HeaderLength(msg)
    ELSE Len(msg.Subject)

\* Space left for the subject beside the type and the scope.
SubjectSpace(type, scope, c) ==
    IF scope # <<>>
    THEN c.MaxLength - Len(type) - Len(scope) - 4
    ELSE c.MaxLength - Len(type) - 2

\* The loop that looks back from offset start, over at most 10 characters,
\* for a space, comma or semicolon; start when it finds none.
BreakPointOf(start, hits) == IF hits = {} THEN start ELSE SetMax(hits)

BreakPoint(subject, start) ==
    BreakPointOf(start, {i \in 1..start :
                            i > start - 10 /\ subject[i + 1] \in {" ", ",", ";"}})

Truncated(msg, subject) ==
    [panic |-> FALSE, msg |-> [msg EXCEPT !.Subject = subject],
     subjectLength |-> HeaderLength([msg EXCEPT !.Subject = subject])]

PlainTruncated(msg, subject) ==
    [panic |-> FALSE, msg |-> [msg EXCEPT !.Subject = subject],
     subjectLength |-> Len(subject)]

Panic(msg, length) == [panic |-> TRUE, msg |-> msg, subjectLength |-> length]

Unchanged(msg, length) == [panic |-> FALSE, msg |-> msg, subjectLength |-> length]

\* Lines 1061-1091: conventional, with a type.
SmartConventional(msg, length, maxSubjectSpace) ==
    IF maxSubjectSpace > 3
    THEN IF maxSubjectSpace < Len(msg.Subject)
         THEN Truncated(msg, Slice(msg.Subject, 0,
                                   BreakPoint(msg.Subject, maxSubjectSpace - 3))
                             \o <<".",".",".">>)
         ELSE Truncated(msg, msg.Subject)
    ELSE Unchanged(msg, length)

\* Lines 1093-1105: the subject alone; breakPoint is the cut found by the loop.
SmartPlain(msg, length, breakPoint) ==
    IF SliceOK(msg.Subject, 0, breakPoint)
    THEN PlainTruncated(msg, Slice(msg.Subject, 0, breakPoint) \o <<".",".",".">>)
    ELSE Panic(msg, length)

\* First truncation (lines 1058-1106).
SmartTruncate(msg, c, length) ==
    IF c.Convention = Conventional /\ msg.Type # <<>>
    THEN SmartConventional(msg, length, SubjectSpace(msg.Type, msg.Scope, c))
    ELSE IF Len(msg.Subject) > c.MaxLength
         THEN SmartPlain(msg, length, BreakPoint(msg.Subject, c.MaxLength - 3))
         ELSE Unchanged(msg, length)

\* A variant that leaves no room for the ellipsis.
BriefSubject_NoEllipsisRoom(msg, length, fixedScope, availableSpace) ==
    IF availableSpace < 10
    THEN Truncated([msg EXCEPT !.Scope = fixedScope], <<"u","p","d","a","t","e">>)
    ELSE IF SliceOK(msg.Subject, 0, availableSpace)
         THEN Truncated([msg EXCEPT !.Scope = fixedScope],
                        Slice(msg.Subject, 0, availableSpace) \o <<".",".",".">>)
         ELSE Panic(msg, length)

\* Lines 1135-1151: the subject for the space left beside type and fixedScope.
BriefSubject(msg, length, fixedScope, availableSpace) ==
    IF availableSpace < 10
    THEN Truncated([msg EXCEPT !.Scope = fixedScope], <<"u","p","d","a","t","e">>)
    ELSE IF SliceOK(msg.Subject, 0, availableSpace - 3)
         THEN Truncated([msg EXCEPT !.Scope = fixedScope],
                        Slice(msg.Subject, 0, availableSpace - 3) \o <<".",".",".">>)
         ELSE Panic(msg, length)

\* Lines 1122-1133: the scope cut to 5 characters when the space is under 10.
FixedScope(msg, c) ==
    IF /\ SubjectSpace(msg.Type, msg.Scope, c) < 10
       /\ msg.Scope # <<>>
       /\ Len(msg.Scope) > 5
    THEN Slice(msg.Scope, 0, 5)
    ELSE msg.Scope

\* Second truncation, entered while the length is still over the limit
\* (lines 1109-1160).
AggressiveTruncate(msg, c, length) ==
    IF c.Convention = Conventional /\ msg.Type # <<>>
    THEN BriefSubject(msg, length, FixedScope(msg, c),
                      SubjectSpace(msg.Type, FixedScope(msg, c), c))
    ELSE IF SliceOK(msg.Subject, 0, c.MaxLength - 3)
         THEN PlainTruncated(msg, Slice(msg.Subject, 0, c.MaxLength - 3) \o <<".",".",".">>)
         ELSE Panic(msg, length)

AfterSmart(first, c) ==
    IF ~first.panic /\ first.subjectLength > c.MaxLength
    THEN AggressiveTruncate(first.msg, c, first.subjectLength)
    ELSE first

EnforceLength(msg, c, length) ==
    IF length > c.MaxLength
    THEN AfterSmart(SmartTruncate(msg, c, length), c)
    ELSE Unchanged(msg, length)

\* Lines 1044-1161: [panic, msg, subjectLength].
EnforceSubjectLength(msg, c) == EnforceLength(msg, c, ComputeSubjectLength(msg, c))

\* Body truncation (lines 1163-1168): [panic, msg].
EnforceBodyLength(msg, c) ==
    IF c.IncludeBody /\ Len(msg.Body) > c.MaxBodyLength
    THEN IF SliceOK(msg.Body, 0, c.MaxBodyLength - 3)
         THEN [panic |-> FALSE,
               msg |-> [msg EXCEPT !.Body = Slice(msg.Body, 0, c.MaxBodyLength - 3)
                                            \o <<".",".",".">>]]
         ELSE [panic |-> TRUE, msg |-> msg]
    ELSE [panic |-> FALSE, msg |-> msg]

IsBlank(s) == s = <<>> \/ TrimSpace(s) = <<>>

\* Lines 1007-1023: parts of the response around its first ": ".
ManualFields(msg, response, c, potential_type, subject) ==
    IF isValidCommitType(potential_type)
    THEN IF c.IncludeBody /\ Contains(subject, <<"\n","\n">>)
         THEN [msg EXCEPT !.Type = potential_type,
                          !.Subject = SplitN2(subject, <<"\n","\n">>)[1],
                          !.Body = SplitN2(subject, <<"\n","\n">>)[2]]
         ELSE [msg EXCEPT !.Type = potential_type, !.Subject = subject]
    ELSE [msg EXCEPT !.Type = <<"c","h","o","r","e">>, !.Subject = response]

\* The message put together when ParseCommitMessageJSON returned an error, in
\* conventional mode (lines 1000-1028).
ManualParse(msg, response, c) ==
    IF Contains(response, <<":"," ">>)
    THEN ManualFields(msg, response, c, TrimSpace(SplitN2(response, <<":"," ">>)[1]),
                      TrimSpace(SplitN2(response, <<":"," ">>)[2]))
    ELSE [msg EXCEPT !.Type = <<"c","h","o","r","e">>, !.Subject = response]

ChoreIfBareColon(trimmed, c) ==
    IF c.Convention = Conventional /\ HasPrefix(trimmed, <<":"," ">>)
    THEN <<"c","h","o","r","e">> \o trimmed
    ELSE trimmed

\* The end of generateWithOpenAI / Gemini / Ollama / Claude: the text handed
\* back to GenerateCommitMessage.
ProviderContent(text, c) == ChoreIfBareColon(TrimSpace(text), c)

-----------------------------------------------------------------------------
(* The inputs: configurations, file lists and provider texts.              *)

MaxScopeLen == 20

MaxSubjectLen == 16

Prefix(s, n) == SubSeq(s, 1, IF n < Len(s) THEN n ELSE Len(s))

ScopeBase == <<"v","e","r","y","-","l","o","n","g","-","s","c","o","p","e","-","n","a","m","e","s","p","a","c","e">>

SubjectBase == <<"t","h","i","s"," ","i","s"," ","a"," ","s","u","b","j","e","c","t"," ","t","h","a","t"," ","i","s"," ","f","a","r"," ","t","o","o"," ","l","o","n","g"," ","f","o","r"," ","t","h","e"," ","l","i","m","i","t"," ","o","f"," ","t","h","i","r","t","y">>

LongSubject == <<"t","h","i","s"," ","i","s"," ","a"," ","s","u","b","j","e","c","t"," ","t","h","a","t"," ","i","s"," ","f","a","r"," ","t","o","o"," ","l","o","n","g"," ","f","o","r"," ","t","h","e"," ","l","i","m","i","t">>

Header(t, sc, subj) ==
    IF sc = <<>> THEN t \o <<":"," ">> \o subj ELSE t \o <<"(">> \o sc \o <<")",":"," ">> \o subj

Config(conv, body, maxLen, maxBody) ==
    [Convention |-> conv, IncludeBody |-> body, MaxLength |-> maxLen,
     MaxBodyLength |-> maxBody]

Input(c, fs, text) == [cfg |-> c, files |-> fs, content |-> text]

FileLists ==
    {<<>>, <<<<"p","k","g","/","a","i","/","a","i",".","g","o">>>>, <<<<"R","E","A","D","M","E",".","m","d">>, <<"m","a","i","n",".","g","o">>>>, <<<<"d","o","c","s","/","R","E","A","D","M","E",".","m","d">>>>,
     <<<<"M","a","k","e","f","i","l","e">>>>}

\* Headers of every length around the limits, conventional mode, no body.
LengthInputs ==
    {Input(Config(Conventional, FALSE, ml, 500), <<>>, Header(t, Prefix(ScopeBase, n), subj)) :
        ml \in {10, 20, 30}, t \in {<<"f","e","a","t">>, <<"r","e","f","a","c","t","o","r">>}, n \in 0..MaxScopeLen,
        subj \in {Prefix(SubjectBase, k) : k \in 0..MaxSubjectLen} \cup {LongSubject}}

TypeTexts == {<<"f","e","a","t">>, <<"F","e","a","t">>, <<"f","e","a","t","u","r","e">>, <<"h","e","r","e"," ","i","s"," ","t","h","e"," ","m","e","s","s","a","g","e">>}

ScopeTexts == {<<>>, <<"a","p","i">>, <<"A","P","I">>, <<"u","p","d","a","t","e">>}

SubjectTexts ==
    {<<"a","d","d"," ","x">>, <<"A","d","d"," ","l","o","g","i","n"," ","p","a","g","e",".">>, <<"u","p","d","a","t","e">>, <<"s","t","o","p"," ","t","h","e"," ","r","e","t","r","y"," ","l","o","o","p",".",".">>, <<>>,
     <<"r","e","n","a","m","e"," ","t","h","e"," ","c","o","n","f","i","g"," ","l","o","a","d","e","r",","," ","k","e","e","p"," ","o","l","d"," ","n","a","m","e">>}

BodyTexts ==
    {<<>>, <<"\n","\n","s","h","o","r","t">>, <<"\n","s","e","c","o","n","d"," ","l","i","n","e"," ","o","n","l","y">>,
     <<"\n","\n","t","h","i","s"," ","c","o","m","m","i","t"," ","a","d","d","s"," ","a"," ","p","a","r","s","e","r","\n","f","i","l","e","s",":"," ","a",".","g","o","\n","\n","a","n","d"," ","a"," ","l","e","x","e","r"," ","f","o","r"," ","i","t">>,
     <<"\n","\n","a","d","d","s"," ","a"," ","r","e","t","r","y"," ","l","o","o","p","\n","\n","w","i","t","h"," ","e","x","p","o","n","e","n","t","i","a","l"," ","b","a","c","k","o","f","f">>}

ContentConfigs ==
    {Config(conv, FALSE, 30, 500) : conv \in {Conventional, "none"}}
    \cup {Config(Conventional, FALSE, 12, 500)}
    \cup {Config(Conventional, TRUE, 30, mb) : mb \in {20, 500}}
    \cup {Config("custom", TRUE, 30, 20)}

ContentInputs ==
    {Input(c, fs, Header(t, sc, subj) \o b) :
        c \in ContentConfigs, fs \in {<<<<"p","k","g","/","a","i","/","a","i",".","g","o">>>>},
        t \in TypeTexts, sc \in ScopeTexts, subj \in SubjectTexts, b \in BodyTexts}

\* Texts that are JSON, hold JSON, or have no "type: subject" header.
SpecialTexts ==
    {<<"{","\"","t","y","p","e","\"",":","\"","f","e","a","t","\"",",","\"","s","c","o","p","e","\"",":","\"","a","p","i","\"",",","\"","s","u","b","j","e","c","t","\"",":","\"","a","d","d"," ","x","\"",",","\"","b","o","d","y","\"",":","\"","a","d","d","s"," ","a"," ","r","e","t","r","y"," ","l","o","o","p","\\","n","\\","n","w","i","t","h"," ","b","a","c","k","o","f","f","\"","}">>,
     <<"H","e","r","e"," ","y","o","u"," ","g","o",":"," ","{","\"","t","y","p","e","\"",":","\"","f","i","x","\"",",","\"","s","u","b","j","e","c","t","\"",":","\"","H","a","n","d","l","e"," ","n","i","l"," ","m","a","p",".","\"","}">>,
     <<"{","\"","s","u","b","j","e","c","t","\"",":","\"","a","d","d"," ","x","\"","}">>,
     <<"{","\"","T","y","p","e","\"",":","\"","\"",",","\"","s","u","b","j","e","c","t","\"",":","\"","a","d","d"," ","x","\"","}">>,
     <<"{","\"","s","u","b","j","e","c","t","\"",":","\"","c","l","o","s","e"," ","a"," ","}"," ","b","r","a","c","e","\"","}">>,
     <<"{","\"","t","y","p","e","\"",":","\"","f","i","x","\"",",","\"","s","u","b","j","e","c","t","\"",":","\"","a"," ","{","b","}"," ","c","\"","}">>,
     <<"{","\"","t","y","p","e","\"",":","\"","f","i","x","\""," ","\"","s","u","b","j","e","c","t","\"",":","\"","x","\"","}">>,
     <<"{","\"","t","y","p","e","\"",":","\"","f","i","x","\"",",","\"","s","u","b","j","e","c","t","\"",":","n","u","l","l","}">>,
     <<"f","e","a","t",":"," ","a","d","d"," ","{","}"," ","s","u","p","p","o","r","t">>,
     <<"f","e","a","t",":"," ","o","p","e","n"," ","{"," ","o","n","l","y">>,
     <<"n","u","l","l">>,
     <<"{","}">>,
     <<>>,
     <<":"," ","a","d","d"," ","f","e","a","t","u","r","e">>,
     <<":","a","d","d"," ","f","e","a","t","u","r","e">>,
     <<":">>,
     <<"(","a","p","i",")",":"," ","a","d","d"," ","x">>,
     <<"f","e","a","t","(","a","p","i",":"," ","a","d","d"," ","x">>,
     <<"a","d","d"," ","t","h","e"," ","p","a","r","s","e","r">>,
     <<"[","S","U","B","J","E","C","T","]","\n","f","e","a","t","(","a","p","i",")",":"," ","a","d","d"," ","x","\n","[","B","O","D","Y","]","\n","\n","a","d","d","s"," ","a"," ","r","e","t","r","y"," ","l","o","o","p","\n","\n","w","i","t","h"," ","b","a","c","k","o","f","f">>,
     <<"[","S","U","B","J","E","C","T","]","\n","a","d","d"," ","x">>,
     <<"[","S","U","B","J","E","C","T","]","\n","\n","f","e","a","t",":"," ","a","d","d"," ","x">>,
     <<"f","e","a","t",":"," ","a","d","d"," ","x","\n","\n",Backtick,Backtick,Backtick,"\n","B","o","d","y",":"," ","a","d","d","s"," ","a"," ","r","e","t","r","y"," ","l","o","o","p","\n",Backtick,Backtick,Backtick>>,
     <<"f","i","x",":"," ","h","a","n","d","l","e"," ","n","i","l"," ","m","a","p","\n","a","d","d","s"," ","a"," ","g","u","a","r","d","\n","a","n","d"," ","a"," ","t","e","s","t">>,
     <<"f","i","x",":"," ","h","a","n","d","l","e"," ","n","i","l"," ","m","a","p","\n","a","d","d","s"," ","a"," ","g","u","a","r","d","\n","\n","a","n","d"," ","a"," ","t","e","s","t">>,
     <<"f","i","x",":"," ","h","a","n","d","l","e"," ","n","i","l"," ","m","a","p","\n","\n","<","d","e","s","c","r","i","p","t","i","v","e"," ","b","o","d","y"," ","e","x","p","l","a","n","a","t","i","o","n",">">>,
     <<"f","i","x",":"," ","C","h","a","n","g","e">>,
     <<"f","i","x",":"," ","r","e","m","o","v","e">>,
     <<"f","e","a","t","(","u","s","e","r","-","a","u","t","h",")",":"," ","a","d","d"," ","x">>,
     <<"f","e","a","t","(","a","\t","b",")",":"," ","a","d","d"," ","x">>}

SpecialConfigs ==
    {Config(conv, body, 30, 20) : conv \in {Conventional, "none"}, body \in BOOLEAN}

SpecialInputs ==
    {Input(c, fs, t) : c \in SpecialConfigs, fs \in FileLists, t \in SpecialTexts}

\* Messages that pass validation, to be rendered and read back.
RoundTripMsgs ==
    {[Type |-> t, Scope |-> sc, Subject |-> subj, Body |-> b] :
        t \in {<<"f","e","a","t">>, <<"f","i","x">>}, sc \in {<<>>, <<"a","p","i">>},
        subj \in {<<"a","d","d"," ","x">>, <<"h","a","n","d","l","e"," ","n","i","l"," ","m","a","p">>},
        b \in {<<>>, <<"a","d","d","s"," ","a"," ","r","e","t","r","y"," ","l","o","o","p","\n","\n","w","i","t","h"," ","e","x","p","o","n","e","n","t","i","a","l"," ","b","a","c","k","o","f","f">>}}

RoundTripConfigs == {Config(Conventional, body, 72, 500) : body \in BOOLEAN}

RoundTripInputs ==
    {Input(c, <<<<"p","k","g","/","a","i","/","a","i",".","g","o">>>>, FormatCommitMessage(m, c)) :
        c \in RoundTripConfigs, m \in RoundTripMsgs}

Inputs == LengthInputs \cup ContentInputs \cup SpecialInputs \cup RoundTripInputs

-----------------------------------------------------------------------------
(* One call of GenerateCommitMessage, from the provider's answer on.       *)

NoResult == [msg |-> <<>>, err |-> "pending"]

NotParsed == [msg |-> EmptyMsg, err |-> Nil, strategy |-> "none"]

\* The token-aware processing is not running.
TokenIdle ==
    /\ changes = <<>>
    /\ ctx = [MaxInputTokens |-> 0, DiffStrategy |-> <<>>, TokenizerModel |-> <<>>,
              Provider |-> <<>>, Model |-> <<>>]
    /\ vocabulary = FALSE
    /\ inputTokens = 0
    /\ maxTokens = 0
    /\ strategy = <<>>
    /\ processed = [text |-> <<>>, tokens |-> 0, err |-> Nil]
    /\ tpc = "idle"

\* The init command is not running.
InitIdle ==
    /\ configPath = <<>>
    /\ force = FALSE
    /\ home = [dir |-> <<>>, err |-> Nil]
    /\ disk = <<>>
    /\ targetPath = <<>>
    /\ initErr = Nil
    /\ ipc = "idle"

\* No call of extractJSON is running.
ExtractIdle ==
    /\ braceText = <<>>
    /\ extracted = <<>>
    /\ xpc = "idle"

\* The generate command is not running.
CmdIdle ==
    /\ repo = [isRepo |-> FALSE, staged |-> {}, modified |-> {}, untracked |-> {},
               commits |-> 0]
    /\ dryRun = FALSE
    /\ stagedFiles = {}
    /\ message = <<>>
    /\ calls = <<>>
    /\ cmdErr = Nil
    /\ cpc = "idle"

Init ==
    /\ \E in \in Inputs :
          /\ cfg = in.cfg
          /\ files = in.files
          /\ content = in.content
    /\ rawResponse = <<>>
    /\ parsed = NotParsed
    /\ commitMsg = EmptyMsg
    /\ subjectLength = 0
    /\ verr = Nil
    /\ nValidate = 0
    /\ nFix = 0
    /\ stages = <<>>
    /\ result = NoResult
    /\ pc = "receive"
    /\ TokenIdle
    /\ CmdIdle
    /\ InitIdle
    /\ ExtractIdle

\* generateWithX returns the response text (lines 1595-1607).
Receive ==
    /\ pc = "receive"
    /\ rawResponse' = ProviderContent(content, cfg)
    /\ stages' = Append(stages, "receive")
    /\ pc' = "parse"
    /\ UNCHANGED <<cfg, files, content, parsed, commitMsg, subjectLength, verr,
                   nValidate, nFix, result>>
    /\ UNCHANGED <<tokenVars, cmdVars, initVars, extractVars>>

\* Lines 995-1032.
Parse ==
    /\ pc = "parse"
    /\ parsed' = ParseCommitMessageJSON(rawResponse)
    /\ IF parsed'.err # Nil /\ cfg.Convention # Conventional
       THEN /\ result' = [msg |-> rawResponse, err |-> Nil]
            /\ commitMsg' = parsed'.msg
            /\ pc' = "done"
       ELSE /\ commitMsg' = IF parsed'.err # Nil
                            THEN ManualParse(parsed'.msg, rawResponse, cfg)
                            ELSE parsed'.msg
            /\ pc' = "defaultBody"
            /\ UNCHANGED result
    /\ stages' = Append(stages, "parse")
    /\ UNCHANGED <<cfg, files, content, rawResponse, subjectLength, verr,
                   nValidate, nFix>>
    /\ UNCHANGED <<tokenVars, cmdVars, initVars, extractVars>>

\* Lines 1037-1042.
DefaultBody ==
    /\ pc = "defaultBody"
    /\ commitMsg' = IF cfg.IncludeBody /\ IsBlank(commitMsg.Body)
                    THEN [commitMsg EXCEPT !.Body = generateDefaultBody(files)]
                    ELSE commitMsg
    /\ stages' = Append(stages, "defaultBody")
    /\ pc' = "subjectLength"
    /\ UNCHANGED <<cfg, files, content, rawResponse, parsed, subjectLength, verr,
                   nValidate, nFix, result>>
    /\ UNCHANGED <<tokenVars, cmdVars, initVars, extractVars>>

\* Lines 1044-1161.
SubjectLength ==
    /\ pc = "subjectLength"
    /\ \E r \in {EnforceSubjectLength(commitMsg, cfg)} :
          /\ commitMsg' = r.msg
          /\ subjectLength' = r.subjectLength
          /\ pc' = IF r.panic THEN "panic" ELSE "bodyLength"
    /\ stages' = Append(stages, "subjectLength")
    /\ UNCHANGED <<cfg, files, content, rawResponse, parsed, verr, nValidate,
                   nFix, result>>
    /\ UNCHANGED <<tokenVars, cmdVars, initVars, extractVars>>

\* Lines 1163-1171.
BodyLength ==
    /\ pc = "bodyLength"
    /\ \E r \in {EnforceBodyLength(commitMsg, cfg)} :
          /\ commitMsg' = r.msg
          /\ pc' = IF r.panic THEN "panic"
                   ELSE IF cfg.Convention = Conventional THEN "validate"
                   ELSE "format"
    /\ stages' = Append(stages, "bodyLength")
    /\ UNCHANGED <<cfg, files, content, rawResponse, parsed, subjectLength, verr,
                   nValidate, nFix, result>>
    /\ UNCHANGED <<tokenVars, cmdVars, initVars, extractVars>>

\* Line 1172.
Validate ==
    /\ pc = "validate"
    /\ verr' = validateConventionalCommit(commitMsg, cfg)
    /\ nValidate' = nValidate + 1
    /\ pc' = IF verr' # Nil THEN "repair" ELSE "format"
    /\ stages' = Append(stages, "validate")
    /\ UNCHANGED <<cfg, files, content, rawResponse, parsed, commitMsg,
                   subjectLength, nFix, result>>
    /\ UNCHANGED <<tokenVars, cmdVars, initVars, extractVars>>

\* Line 1175.
Repair ==
    /\ pc = "repair"
    /\ commitMsg' = fixConventionalCommitIssues(commitMsg)
    /\ nFix' = nFix + 1
    /\ pc' = "revalidate"
    /\ stages' = Append(stages, "repair")
    /\ UNCHANGED <<cfg, files, content, rawResponse, parsed, subjectLength, verr,
                   nValidate, result>>
    /\ UNCHANGED <<tokenVars, cmdVars, initVars, extractVars>>

\* A variant that goes back to the repair while the message is still invalid.
Revalidate_Retry ==
    /\ pc = "revalidate"
    /\ verr' = validateConventionalCommit(commitMsg, cfg)
    /\ nValidate' = nValidate + 1
    /\ commitMsg' = commitMsg
    /\ pc' = IF verr' # Nil THEN "repair" ELSE "format"
    /\ stages' = Append(stages, "revalidate")
    /\ UNCHANGED <<cfg, files, content, rawResponse, parsed, subjectLength, nFix,
                   result>>
    /\ UNCHANGED <<tokenVars, cmdVars, initVars, extractVars>>

\* Lines 1178-1182.
Revalidate ==
    /\ pc = "revalidate"
    /\ verr' = validateConventionalCommit(commitMsg, cfg)
    /\ nValidate' = nValidate + 1
    /\ commitMsg' = IF verr' # Nil /\ cfg.IncludeBody /\ IsBlank(commitMsg.Body)
                    THEN [commitMsg EXCEPT !.Body = generateDefaultBody(files)]
                    ELSE commitMsg
    /\ pc' = "format"
    /\ stages' = Append(stages, "revalidate")
    /\ UNCHANGED <<cfg, files, content, rawResponse, parsed, subjectLength, nFix,
                   result>>
    /\ UNCHANGED <<tokenVars, cmdVars, initVars, extractVars>>

\* Lines 1187-1209: return formattedMessage, nil.
Format ==
    /\ pc = "format"
    /\ result' = [msg |-> FormatCommitMessage(commitMsg, cfg), err |-> Nil]
    /\ pc' = "done"
    /\ stages' = Append(stages, "format")
    /\ UNCHANGED <<cfg, files, content, rawResponse, parsed, commitMsg,
                   subjectLength, verr, nValidate, nFix>>
    /\ UNCHANGED <<tokenVars, cmdVars, initVars, extractVars>>

Next ==
    \/ Receive
    \/ Parse
    \/ DefaultBody
    \/ SubjectLength
    \/ BodyLength
    \/ Validate
    \/ Repair
    \/ Revalidate
    \/ Format

Spec == Init /\ [][Next]_vars

-----------------------------------------------------------------------------
(* Properties of one call.                                                 *)

ConventionalMode == cfg.Convention = Conventional

\* The call returned (return formattedMessage, nil or return rawResponse, nil).
Returned == pc = "done"

StageOrder ==
    <<"receive", "parse", "defaultBody", "subjectLength", "bodyLength",
      "validate", "repair", "revalidate", "format">>

Rank(stage) == CHOOSE i \in 1..Len(StageOrder) : StageOrder[i] = stage

IsPrefixOf(p, s) == Len(p) <= Len(s) /\ SubSeq(s, 1, Len(p)) = p

\* C1: in conventional mode the header line "type(scope): subject" of the
\* returned message is at most MaxLength characters long.
C1_HeaderWithinMaxLength ==
    (Returned /\ ConventionalMode) => Len(FormatHeader(commitMsg, cfg)) <= cfg.MaxLength

\* C2: with MaxLength >= 10 and MaxBodyLength >= 3 the pipeline never ends in
\* a runtime fault; it reaches the format step.
C2_NeverPanics ==
    (cfg.MaxLength >= 10 /\ cfg.MaxBodyLength >= 3) => pc # "panic"

\* C3: in conventional mode, a message that still fails validation after the
\* repair pass is returned as an error carrying the rule description.
C3_FailureSurfaced ==
    (Returned /\ ConventionalMode /\ nValidate = 2 /\ verr # Nil)
        => result.err = verr

\* C4: in conventional mode every message returned without error has one of
\* the eleven allowed types.
C4_ReturnedTypeAllowed ==
    (Returned /\ ConventionalMode /\ result.err = Nil)
        => commitMsg.Type \in AllowedTypes

\* C5: in conventional mode the subject of every returned message is
\* non-empty and does not end with a period.
C5_SubjectNoTrailingPeriod ==
    (Returned /\ ConventionalMode)
        => (commitMsg.Subject # <<>> /\ ~HasSuffix(commitMsg.Subject, <<".">>))

\* C6: per call the repair runs at most once and validation at most twice,
\* the stages run in their fixed order, none is entered twice, and the call
\* always terminates: the stage about to run is later in the order than every
\* stage that has run, so a call takes at most Len(StageOrder) steps before
\* it returns or faults.
C6_StagesOnceInOrder ==
    /\ nFix <= 1
    /\ nValidate <= 2
    /\ nFix = Cardinality({i \in 1..Len(stages) : stages[i] = "repair"})
    /\ nValidate = Cardinality({i \in 1..Len(stages) :
                                   stages[i] \in {"validate", "revalidate"}})
    /\ \A i \in 1..Len(stages) : \E k \in 1..Len(StageOrder) : stages[i] = StageOrder[k]
    /\ \A i \in 1..(Len(stages) - 1) : Rank(stages[i]) < Rank(stages[i + 1])
    /\ \/ pc \in {"done", "panic"}
       \/ /\ \E k \in 1..Len(StageOrder) : pc = StageOrder[k]
          /\ \A i \in 1..Len(stages) : Rank(stages[i]) < Rank(pc)

C6_Witness == Returned /\ nFix = 1 /\ nValidate = 2 /\ stages[Len(stages)] = "format"

\* C7: the parse result is that of the first strategy that succeeds, in the
\* order extracted object, whole response, text; the text result is used
\* only when both decodes failed.
C7_FirstStrategyWins ==
    (pc \notin {"receive", "parse"}) =>
        LET jsonStr == extractJSON(rawResponse)
            aOK == jsonStr # <<>> /\ Unmarshal(jsonStr).ok
            bOK == Unmarshal(rawResponse).ok
        IN  /\ aOK => (parsed.strategy = "extract" /\ parsed.msg = Unmarshal(jsonStr).msg)
            /\ (~aOK /\ bOK) =>
                   (parsed.strategy = "whole" /\ parsed.msg = Unmarshal(rawResponse).msg)
            /\ (~aOK /\ ~bOK) =>
                   (/\ parsed.strategy = "text"
                    /\ parsed.msg = parseTextCommitMessage(rawResponse))

C7_Witness ==
    /\ pc = "defaultBody"
    /\ parsed.strategy = "whole"
    /\ extractJSON(rawResponse) # <<>>
    /\ parseTextCommitMessage(rawResponse) # parsed.msg

\* The first line of the response, trimmed.
FirstLine(text) == TrimSpace(Split(text, <<"\n">>)[1])

\* C8: a non-JSON response from the model whose first line starts with a
\* bare colon parses, without error, to type "chore" and the text after the
\* colon, trimmed.
C8_BareColon ==
    (/\ pc \notin {"receive", "parse"}
     /\ parsed.strategy = "text"
     /\ HasPrefix(FirstLine(content), <<":">>)
     /\ SubjectIndex(Split(content, <<"\n">>)) < 0)
        => (/\ parsed.err = Nil
            /\ parsed.msg.Type = <<"c","h","o","r","e">>
            /\ parsed.msg.Subject = TrimSpace(SliceFrom(FirstLine(content), 1)))

\* The scenario of C9.
C9_Scenario ==
    /\ ConventionalMode
    /\ cfg.MaxLength = 30
    /\ content = Header(<<"f","e","a","t">>, <<"v","e","r","y","-","l","o","n","g","-","s","c","o","p","e","-","n","a","m","e">>, LongSubject)

\* The step of length enforcement.
C9_Step == pc = "subjectLength" /\ pc' = "bodyLength"

\* C9 as stated: the scenario ends with a header of at most 30 characters and
\* type "feat"; length enforcement never changes Type and only shortens Scope
\* and Subject.
C9_OnlyShortens ==
    /\ [](C9_Scenario /\ pc = "bodyLength"
            => HeaderLength(commitMsg) <= 30 /\ commitMsg.Type = <<"f","e","a","t">>)
    /\ [][C9_Step => /\ commitMsg'.Type = commitMsg.Type
                     /\ Len(commitMsg'.Scope) <= Len(commitMsg.Scope)
                     /\ Len(commitMsg'.Subject) <= Len(commitMsg.Subject)]_vars

\* C9 as amended: the scenario ends with a header of at most 30 characters
\* and type "feat"; length enforcement never changes Type or Body, it cuts
\* Scope to a prefix of itself, and Subject is left alone, replaced by
\* "update", or cut to a prefix followed by "..." (either of which can be
\* longer than the subject was).
C9_TypeKept ==
    /\ [](C9_Scenario /\ pc = "bodyLength"
            => HeaderLength(commitMsg) <= 30 /\ commitMsg.Type = <<"f","e","a","t">>)
    /\ [][pc = "subjectLength" =>
            /\ commitMsg'.Type = commitMsg.Type
            /\ commitMsg'.Body = commitMsg.Body
            /\ IsPrefixOf(commitMsg'.Scope, commitMsg.Scope)
            /\ \/ commitMsg'.Subject = commitMsg.Subject
               \/ commitMsg'.Subject = <<"u","p","d","a","t","e">>
               \/ /\ HasSuffix(commitMsg'.Subject, <<".",".",".">>)
                  /\ IsPrefixOf(Slice(commitMsg'.Subject, 0, Len(commitMsg'.Subject) - 3),
                                commitMsg.Subject)]_vars

C9_Witness ==
    /\ C9_Scenario
    /\ pc = "bodyLength"
    /\ commitMsg.Scope = <<"v","e","r","y","-">>
    /\ commitMsg.Subject = <<"t","h","i","s"," ","i","s"," ","a"," ","s","u","b","j",".",".",".">>

\* C10: a message that passes validation, rendered by FormatCommitMessage
\* with every field shown (the body as bullet lines when IncludeBody is set)
\* and within the length limits, then parsed and normalised, comes back with
\* the same four fields.
C10_Idempotent ==
    \A m \in RoundTripMsgs :
        (/\ Returned
         /\ ConventionalMode
         /\ cfg.IncludeBody \/ m.Body = <<>>
         /\ HeaderLength(m) <= cfg.MaxLength
         /\ Len(m.Body) <= cfg.MaxBodyLength
         /\ validateConventionalCommit(m, cfg) = Nil
         /\ content = FormatCommitMessage(m, cfg))
            => commitMsg = m

\* The body part of the returned text: what follows the first blank line.
BodyPartFrom(text, idx) == IF idx < 0 THEN <<>> ELSE SliceFrom(text, idx + 2)

ResultBody == BodyPartFrom(result.msg, Index(result.msg, <<"\n","\n">>))

\* C11: with IncludeBody set, the body part of the returned message is at
\* most MaxBodyLength characters long, and the body-length step leaves a body
\* it cut ending with "...".
C11_BodyWithinMaxBodyLength ==
    /\ []((Returned /\ cfg.IncludeBody /\ stages[Len(stages)] = "format")
            => Len(ResultBody) <= cfg.MaxBodyLength)
    /\ [][(/\ pc = "bodyLength"
           /\ pc' # "panic"
           /\ cfg.IncludeBody
           /\ Len(commitMsg.Body) > cfg.MaxBodyLength)
              => HasSuffix(commitMsg'.Body, <<".",".",".">>)]_vars

\* The kind named for a file, by the end of its path.
KindWords(path) ==
    IF HasSuffix(path, <<".","g","o">>) THEN <<"G","o"," ","c","o","d","e">>
    ELSE IF HasSuffix(path, <<".","m","d">>) THEN <<"d","o","c","u","m","e","n","t","a","t","i","o","n">>
    ELSE <<>>

\* The text after the last slash of a path that does not end in one.
LastElement(path) ==
    SubSeq(path, SetMax({0} \cup {i \in 1..Len(path) : path[i] = "/"}) + 1, Len(path))

\* C12: with IncludeBody set, the default-body step replaces a blank body by
\* a non-blank text computed from the file list alone: for one file it names
\* the file's base name and the kind of its extension, for several files
\* their count, for no file the fixed sentence; a body that is not blank, and
\* every other field, is left as it was.
C12_DefaultBodyFromFiles ==
    [][pc = "defaultBody" =>
         IF cfg.IncludeBody /\ IsBlank(commitMsg.Body)
         THEN /\ ~IsBlank(commitMsg'.Body)
              /\ commitMsg'.Body = generateDefaultBody(files)
              /\ Len(files) = 1 =>
                    /\ Contains(commitMsg'.Body, LastElement(files[1]))
                    /\ Contains(commitMsg'.Body, KindWords(files[1]))
              /\ Len(files) > 1 => Contains(commitMsg'.Body, Itoa(Len(files)))
              /\ Len(files) = 0 => commitMsg'.Body = <<"U","p","d","a","t","e"," ","c","o","d","e"," ","w","i","t","h"," ","n","e","c","e","s","s","a","r","y"," ","c","h","a","n","g","e","s">>
              /\ commitMsg' = [commitMsg EXCEPT !.Body = commitMsg'.Body]
         ELSE commitMsg' = commitMsg]_vars

C12_Witness ==
    /\ pc = "subjectLength"
    /\ cfg.IncludeBody
    /\ IsBlank(parsed.msg.Body)
    /\ files = <<<<"d","o","c","s","/","R","E","A","D","M","E",".","m","d">>>>
    /\ commitMsg.Body = <<"I","m","p","r","o","v","e"," ","d","o","c","u","m","e","n","t","a","t","i","o","n"," ","i","n"," ","R","E","A","D","M","E",".","m","d">>

\* C13: the repair replaces a subject that is one of the generic words,
\* compared without regard to case, by a subject that the generic-subject
\* rule of the validation no longer rejects.
C13_GenericSubjectRepaired ==
    [][(pc = "repair" /\ ToLower(commitMsg.Subject) \in GenericSubjects)
          => /\ commitMsg'.Subject # commitMsg.Subject
             /\ ToLower(commitMsg'.Subject) \notin GenericSubjects]_vars

\* The ASCII punctuation characters.
Punctuation == ScopeSpecials \cup {"-"}

ScopeCharClean(c) == ~IsUpper(c) /\ ~IsSpace(c) /\ c \notin Punctuation

\* C14: a message that validation accepts has an empty scope or a scope
\* without uppercase letters, white space (space, tab, newline) and
\* punctuation ("-" included); every other scope is rejected.
C14_ScopeRule ==
    (/\ ConventionalMode
     /\ pc = "format"
     /\ nValidate >= 1
     /\ verr = Nil)
        => \A i \in 1..Len(commitMsg.Scope) : ScopeCharClean(commitMsg.Scope[i])

-----------------------------------------------------------------------------
(* pkg/tokenizer: token counts and truncation to a token limit.            *)

IsAlnum(c) ==
    \/ \E i \in 1..Len(LowerLetters) : LowerLetters[i] = c
    \/ IsUpper(c)
    \/ \E i \in 1..Len(Digits) : Digits[i] = c

\* encoding.Encode of the tiktoken library: the vocabulary is not part of the
\* program, so the token sequence is taken to be the pieces of the text, one
\* per word and one per character that is neither a letter, a digit nor a
\* space (a text that is not empty has at least one token).
EncodeStarts(text) ==
    {i \in 1..Len(text) :
        \/ IsAlnum(text[i]) /\ (i = 1 \/ ~IsAlnum(text[i - 1]))
        \/ ~IsAlnum(text[i]) /\ text[i] # " "}

EncodeLen(text) ==
    IF EncodeStarts(text) = {} THEN 1 ELSE Cardinality(EncodeStarts(text))

\* int(float64(len(text)) / 3.5)
EstimateTokens(text) == (2 * Len(text)) \div 7

\* vocabulary: whether tiktoken could load an encoding (for the model, or
\* cl100k_base as the fallback); without one the count is estimated.
CountTokens(text, model) ==
    IF text = <<>> THEN 0
    ELSE IF vocabulary THEN EncodeLen(text)
    ELSE EstimateTokens(text)

TruncationMarker == <<".",".",".","[","t","r","u","n","c","a","t","e","d"," ","t","o"," ","f","i","t"," ","t","o","k","e","n"," ","l","i","m","i","t","]">>

RECURSIVE TruncateLines(_, _, _, _, _, _)
TruncateLine(lines, i, currentTotal, res, limit, model, lineTokens) ==
    IF currentTotal + lineTokens > limit
    THEN Append(res, TruncationMarker)
    ELSE TruncateLines(lines, i + 1, currentTotal + lineTokens,
                       Append(res, lines[i]), limit, model)

TruncateLines(lines, i, currentTotal, res, limit, model) ==
    IF i > Len(lines) THEN res
    ELSE TruncateLine(lines, i, currentTotal, res, limit, model,
                      CountTokens(lines[i] \o <<"\n">>, model))

TruncateToTokenLimit(text, limit, model) ==
    IF CountTokens(text, model) <= limit THEN text
    ELSE Join(TruncateLines(Split(text, <<"\n">>), 1, 0, <<>>, limit, model), <<"\n">>)

HasAny(s, subs) == \E sub \in subs : Contains(s, sub)

\* GetProviderTokenLimit, after both names were lowered.
OpenAILimit(model) ==
    IF HasAny(model, {<<"g","p","t","-","4">>, <<"g","p","t","-","5">>}) THEN 100000
    ELSE IF Contains(model, <<"g","p","t","-","3",".","5","-","t","u","r","b","o">>)
         THEN IF Contains(model, <<"1","6","k">>) THEN 12000 ELSE 3000
    ELSE 100000

ProviderLimit(provider, model) ==
    IF provider = <<"o","p","e","n","a","i">> THEN OpenAILimit(model)
    ELSE IF provider = <<"c","l","a","u","d","e">>
         THEN IF HasAny(model, {<<"c","l","a","u","d","e","-","3">>, <<"c","l","a","u","d","e","-","4">>}) THEN 180000 ELSE 90000
    ELSE IF provider = <<"g","e","m","i","n","i">>
         THEN IF HasAny(model, {<<"1",".","5">>, <<"2",".","0">>}) THEN 900000 ELSE 30000
    ELSE IF provider = <<"o","l","l","a","m","a">> THEN 8000
    ELSE 100000

GetProviderTokenLimit(provider, model) ==
    ProviderLimit(ToLower(provider), ToLower(model))

-----------------------------------------------------------------------------
(* TruncateToTokenLimit applied to a text, a limit and a model.            *)

MaxLimit == 12

TruncateTexts ==
    {<<>>,
     <<"+","a","\n","+","b","\n","+","c","\n","+","d","\n","+","e","\n","+","f","\n","+","g","\n","+","h","\n","+","i","\n","+","j","\n","+","k","\n","+","l">>,
     <<"d","i","f","f"," ","-","-","g","i","t"," ","a","/","x",".","g","o"," ","b","/","x",".","g","o","\n","+","f","u","n","c"," ","m","a","i","n","(",")"," ","{","}","\n","-","o","l","d"," ","l","i","n","e"," ","h","e","r","e">>,
     <<"o","n","e"," ","l","o","n","g"," ","l","i","n","e"," ","w","i","t","h","o","u","t"," ","a","n","y"," ","l","i","n","e"," ","b","r","e","a","k"," ","i","n"," ","t","h","e"," ","w","h","o","l","e"," ","t","e","x","t">>,
     <<"+","f","i","r","s","t","\n","\n","+","s","e","c","o","n","d"," ","l","i","n","e"," ","i","s"," ","l","o","n","g","e","r","\n","+","t","h","i","r","d">>,
     <<"a","b">>}

TokenizerModels == {<<"g","p","t","-","4">>, <<"l","l","a","m","a","3">>}

Context(maxInput, strat, tokModel, provider, model) ==
    [MaxInputTokens |-> maxInput, DiffStrategy |-> strat, TokenizerModel |-> tokModel,
     Provider |-> provider, Model |-> model]

\* The message pipeline is not running.
MessageIdle ==
    /\ cfg = Config(Conventional, FALSE, 0, 0)
    /\ files = <<>>
    /\ content = <<>>
    /\ rawResponse = <<>>
    /\ parsed = NotParsed
    /\ commitMsg = EmptyMsg
    /\ subjectLength = 0
    /\ verr = Nil
    /\ nValidate = 0
    /\ nFix = 0
    /\ stages = <<>>
    /\ result = NoResult
    /\ pc = "idle"

NotProcessed == [text |-> <<>>, tokens |-> 0, err |-> Nil]

\* A processed text and its token count (finalTokens, ai.go 927).
Processed(text, model) ==
    [text |-> text, tokens |-> CountTokens(text, model), err |-> Nil]

TruncateInit ==
    /\ MessageIdle
    /\ CmdIdle
    /\ InitIdle
    /\ ExtractIdle
    /\ changes \in TruncateTexts
    /\ maxTokens \in 0..MaxLimit
    /\ vocabulary \in BOOLEAN
    /\ \E model \in TokenizerModels :
          ctx = Context(0, <<>>, model, <<>>, model)
    /\ inputTokens = 0
    /\ strategy = <<>>
    /\ processed = NotProcessed
    /\ tpc = "truncate"

TruncateCall ==
    /\ tpc = "truncate"
    /\ processed' = Processed(TruncateToTokenLimit(changes, maxTokens,
                                                   ctx.TokenizerModel),
                              ctx.TokenizerModel)
    /\ tpc' = "truncated"
    /\ UNCHANGED <<changes, ctx, vocabulary, inputTokens, maxTokens, strategy>>
    /\ UNCHANGED <<messageVars, cmdVars, initVars, extractVars>>

TruncateNext == TruncateCall

TruncateSpec == TruncateInit /\ [][TruncateNext]_vars

\* The text is the first k lines of the input followed by the marker line.
IsMarkedPrefix(text, lines) ==
    \E k \in 0..Len(lines) :
        text = Join(Append(SubSeq(lines, 1, k), TruncationMarker), <<"\n">>)

\* C15: the result of TruncateToTokenLimit counts at most maxTokens tokens,
\* the marker line included; it is the text itself when the text is within
\* the limit and otherwise a prefix of whole lines followed by the marker.
C15_TruncateWithinLimit ==
    tpc = "truncated" =>
        /\ CountTokens(processed.text, ctx.TokenizerModel) <= maxTokens
        /\ IF CountTokens(changes, ctx.TokenizerModel) <= maxTokens
           THEN processed.text = changes
           ELSE IsMarkedPrefix(processed.text, Split(changes, <<"\n">>))

-----------------------------------------------------------------------------
(* The diff components that GenerateCommitMessage calls at ai.go 918-920:  *)
(* DiffParser, PriorityScorer, the summary of a file, BudgetAllocator and  *)
(* BatchSummarizer, after sections 3 and 4.1-4.4 of the design.            *)

RECURSIVE SortedSeq(_)
SortedSeq(S) ==
    IF S = {} THEN <<>> ELSE <<SetMin(S)>> \o SortedSeq(S \ {SetMin(S)})

LastIndex(s, sub) ==
    MaxOrNone({i \in 0..(Len(s) - Len(sub)) : Slice(s, i, i + Len(sub)) = sub})

SeparatorPrefix == <<"d","i","f","f"," ","-","-","g","i","t"," ">>

IsSeparator(line) == HasPrefix(line, SeparatorPrefix)

\* The destination path of a separator line "diff --git a/X b/Y".
PathAfter(line, i) == IF i < 0 THEN <<>> ELSE SliceFrom(line, i + 3)

DestinationPath(line) == PathAfter(line, LastIndex(line, <<" ","b","/">>))

MarkerStatus(line) ==
    IF HasPrefix(line, <<"n","e","w"," ","f","i","l","e">>) THEN "added"
    ELSE IF HasPrefix(line, <<"d","e","l","e","t","e","d"," ","f","i","l","e">>) THEN "deleted"
    ELSE IF HasPrefix(line, <<"r","e","n","a","m","e"," ","f","r","o","m">>) THEN "renamed"
    ELSE "none"

StatusAt(lines, i) == IF i < 0 THEN "modified" ELSE MarkerStatus(lines[i])

StatusOf(lines) ==
    StatusAt(lines, MinOrNone({i \in 1..Len(lines) : MarkerStatus(lines[i]) # "none"}))

RenameAt(lines, i, path) ==
    IF i < 0 THEN path ELSE SliceFrom(lines[i], Len(<<"r","e","n","a","m","e"," ","t","o"," ">>))

PathOf(lines) ==
    RenameAt(lines, MinOrNone({i \in 1..Len(lines) : HasPrefix(lines[i], <<"r","e","n","a","m","e"," ","t","o"," ">>)}),
             DestinationPath(lines[1]))

\* Lines that begin with the sign and are not part of the file-header pair.
IsChange(line, sign) ==
    HasPrefix(line, <<sign>>) /\ ~HasPrefix(line, <<sign, sign, sign>>)

CountChanges(lines, sign) ==
    Cardinality({i \in 1..Len(lines) : IsChange(lines[i], sign)})

FileUnit(lines) ==
    [path |-> PathOf(lines), status |-> StatusOf(lines),
     addedLines |-> CountChanges(lines, "+"),
     removedLines |-> CountChanges(lines, "-"),
     rawContent |-> Join(lines, <<"\n">>)]

SectionEnd(lines, starts, k) ==
    IF k < Len(starts) THEN starts[k + 1] - 1 ELSE Len(lines)

Sections(lines, starts) ==
    [k \in 1..Len(starts) |->
        FileUnit(SubSeq(lines, starts[k], SectionEnd(lines, starts, k)))]

ParseDiffLines(lines) ==
    Sections(lines, SortedSeq({i \in 1..Len(lines) : IsSeparator(lines[i])}))

DiffParser(text) == ParseDiffLines(Split(text, <<"\n">>))

\* The scoring table.
DirectoryScore(path) ==
    IF Contains(path, <<"p","k","g","/","a","i","/">>) THEN 100
    ELSE IF Contains(path, <<"p","k","g","/","g","i","t","/">>) THEN 80
    ELSE IF Contains(path, <<"c","m","d","/">>) THEN 60
    ELSE IF HasAny(path, {<<"p","k","g","/">>, <<"i","n","t","e","r","n","a","l","/">>}) THEN 40
    ELSE 0

SizeScore(unit) ==
    IF unit.addedLines + unit.removedLines < 50
    THEN unit.addedLines + unit.removedLines ELSE 50

HasAnySuffix(path, exts) == \E e \in exts : HasSuffix(path, e)

ExtensionScore(path) ==
    (IF HasAnySuffix(path, {<<".","g","o">>, <<".","p","y">>, <<".","j","s">>, <<".","t","s">>}) THEN 30 ELSE 0)
    + (IF HasAny(path, {<<"_","t","e","s","t",".">>, <<".","t","e","s","t",".">>}) THEN -20 ELSE 0)
    + (IF HasAnySuffix(path, {<<".","m","d">>, <<".","t","x","t">>, <<".","r","s","t">>}) THEN -30 ELSE 0)
    + (IF HasAnySuffix(path, {<<".","y","a","m","l">>, <<".","y","m","l">>, <<".","j","s","o","n">>, <<".","t","o","m","l">>}) THEN 10 ELSE 0)

StatusScore(status) ==
    IF status = "added" THEN 20 ELSE IF status = "deleted" THEN -30 ELSE 0

RawScore(unit) ==
    DirectoryScore(unit.path) + SizeScore(unit) + ExtensionScore(unit.path)
    + StatusScore(unit.status)

Clamp(n) == IF n < 0 THEN 0 ELSE n

PriorityScorer(unit) == Clamp(RawScore(unit))

ScoredFileUnit(unit, model) ==
    [unit |-> unit, priority |-> PriorityScorer(unit),
     tokenCount |-> CountTokens(unit.rawContent, model)]

Score(units, model) == [k \in 1..Len(units) |-> ScoredFileUnit(units[k], model)]

\* Descending priority; the order of appearance breaks ties.
Before(scored, i, j) ==
    \/ scored[i].priority > scored[j].priority
    \/ scored[i].priority = scored[j].priority /\ i < j

RECURSIVE OrderFrom(_, _)
PickFirst(scored, left, i) == <<scored[i]>> \o OrderFrom(scored, left \ {i})

OrderFrom(scored, left) ==
    IF left = {} THEN <<>>
    ELSE PickFirst(scored, left,
                   CHOOSE i \in left : \A j \in left \ {i} : Before(scored, i, j))

ByPriority(scored) == OrderFrom(scored, DOMAIN scored)

\* The summary of a file: a header line, the names declared on added and on
\* removed lines, and the first meaningful changed lines (additions first).
MaxSummaryNames == 3

MaxSummaryLines == 2

StatusWord(status) ==
    IF status = "added" THEN <<"a","d","d","e","d">>
    ELSE IF status = "deleted" THEN <<"d","e","l","e","t","e","d">>
    ELSE IF status = "renamed" THEN <<"r","e","n","a","m","e","d">>
    ELSE <<"m","o","d","i","f","i","e","d">>

Counts(unit) ==
    <<"+">> \o Itoa(unit.addedLines) \o <<","," ","-">> \o Itoa(unit.removedLines)

SummaryHeader(unit) ==
    unit.path \o <<" ","[">> \o StatusWord(unit.status) \o <<"]"," ","(">> \o Counts(unit) \o <<")">>

\* The one-line fallback "path (+A, -R)".
StatsLine(unit) == unit.path \o <<" ","(">> \o Counts(unit) \o <<")">>

ChangeText(line) == TrimSpace(SliceFrom(line, 1))

IsNoise(text) ==
    text \in {<<>>, <<"{">>, <<"}">>} \/ HasPrefix(text, <<"i","m","p","o","r","t">>)

Changed(lines, sign) ==
    SelectSeq(lines, LAMBDA l : IsChange(l, sign) /\ ~IsNoise(ChangeText(l)))

NameEnd(text, i) == IF i < 0 THEN Len(text) ELSE i

DeclaredName(text) ==
    IF HasPrefix(text, <<"f","u","n","c"," ">>)
    THEN Slice(text, 5, NameEnd(text, Index(text, <<"(">>)))
    ELSE <<>>

RECURSIVE UniqueNames(_, _, _)
AddName(lines, i, acc, name) ==
    UniqueNames(lines, i + 1,
                IF name = <<>> \/ \E k \in 1..Len(acc) : acc[k] = name
                THEN acc ELSE Append(acc, name))

UniqueNames(lines, i, acc) ==
    IF i > Len(lines) \/ Len(acc) >= MaxSummaryNames THEN acc
    ELSE AddName(lines, i, acc, DeclaredName(ChangeText(lines[i])))

NamesLine(label, names) ==
    IF names = <<>> THEN <<>> ELSE <<label \o Join(names, <<","," ">>)>>

SummaryLines(unit, added, removed) ==
    <<SummaryHeader(unit)>>
    \o NamesLine(<<"a","d","d","e","d",":"," ">>, UniqueNames(added, 1, <<>>))
    \o NamesLine(<<"r","e","m","o","v","e","d",":"," ">>, UniqueNames(removed, 1, <<>>))
    \o Prefix(added \o removed, MaxSummaryLines)

SummaryOf(unit, lines) ==
    Join(SummaryLines(unit, Changed(lines, "+"), Changed(lines, "-")), <<"\n">>)

Summary(unit) == SummaryOf(unit, Split(unit.rawContent, <<"\n">>))

\* BudgetAllocator: a greedy pass over the files in priority order.
HeaderText == <<"C","h","a","n","g","e","d"," ","f","i","l","e","s",":">>

TruncationNotice == <<".",".","."," ","m","o","r","e"," ","f","i","l","e","s"," ","o","m","i","t","t","e","d">>

ReserveThreshold == 6

FullPriority == 100

Emitted(text, tokens) == [text |-> text, tokens |-> tokens]

\* Full content, else the summary if it fits, else the stats line.
FitSummary(s, remaining, model, summary) ==
    IF CountTokens(summary, model) <= remaining THEN summary ELSE StatsLine(s.unit)

Choose(s, remaining, model) ==
    IF s.priority >= FullPriority /\ s.tokenCount < remaining \div 2
    THEN s.unit.rawContent
    ELSE FitSummary(s, remaining, model, Summary(s.unit))

RECURSIVE Allocate(_, _, _, _, _)
Emit(scored, i, remaining, out, model, piece) ==
    Allocate(scored, i + 1, remaining - CountTokens(piece, model),
             Append(out, piece), model)

Allocate(scored, i, remaining, out, model) ==
    IF i > Len(scored) THEN [pieces |-> out, remaining |-> remaining]
    ELSE IF remaining <= ReserveThreshold
    THEN [pieces |-> Append(out, TruncationNotice),
          remaining |-> remaining - CountTokens(TruncationNotice, model)]
    ELSE Emit(scored, i, remaining, out, model, Choose(scored[i], remaining, model))

Block(alloc, budget) ==
    Emitted(Join(alloc.pieces, <<"\n">>), budget - alloc.remaining)

BudgetAllocator(scored, budget, model) ==
    Block(Allocate(scored, 1, budget - CountTokens(HeaderText, model),
                   <<HeaderText>>, model),
          budget)

\* Zero files: the raw input unchanged.
ContextOf(text, units, budget, model) ==
    IF units = <<>> THEN Emitted(text, CountTokens(text, model))
    ELSE BudgetAllocator(ByPriority(Score(units, model)), budget, model)

BuildContextFromDiff(text, budget, model) ==
    ContextOf(text, DiffParser(text), budget, model)

\* BatchSummarizer: the summaries packed greedily under the ceiling.
RECURSIVE Pack(_, _, _, _, _, _)
Pack(costs, i, batches, cur, curCost, ceiling) ==
    IF i > Len(costs)
    THEN IF cur = <<>> THEN batches ELSE Append(batches, cur)
    ELSE IF cur # <<>> /\ curCost + costs[i] > ceiling
    THEN Pack(costs, i, Append(batches, cur), <<>>, 0, ceiling)
    ELSE Pack(costs, i + 1, batches, Append(cur, i), curCost + costs[i], ceiling)

BatchHeader(k, n) == <<"B","a","t","c","h"," ">> \o Itoa(k) \o <<" ","(">> \o Itoa(n) \o <<" ","f","i","l","e","s",")">>

BatchSection(summaries, batches, k) ==
    Join(<<BatchHeader(k, Len(batches[k]))>>
         \o [j \in 1..Len(batches[k]) |-> summaries[batches[k][j]]], <<"\n">>)

BatchText(summaries, batches) ==
    Join([k \in 1..Len(batches) |-> BatchSection(summaries, batches, k)], <<"\n">>)

Batches(summaries, ceiling, model) ==
    Pack([k \in 1..Len(summaries) |-> CountTokens(summaries[k], model)],
         1, <<>>, <<>>, 0, ceiling)

BatchOf(summaries, ceiling, model) ==
    BatchText(summaries, Batches(summaries, ceiling, model))

Summaries(units) == [k \in 1..Len(units) |-> Summary(units[k])]

BatchUnits(text, units, ceiling, model) ==
    IF units = <<>> THEN text ELSE BatchOf(Summaries(units), ceiling, model)

BatchSummarize(text, ceiling, model) ==
    BatchUnits(text, DiffParser(text), ceiling, model)

-----------------------------------------------------------------------------
(* The token-aware processing of GenerateCommitMessage (ai.go 876-934).    *)

GoFileDiff ==
    <<"d","i","f","f"," ","-","-","g","i","t"," ","a","/","p","k","g","/","a","i","/","a","i",".","g","o"," ","b","/","p","k","g","/","a","i","/","a","i",".","g","o","\n","-","-","-"," ","a","/","p","k","g","/","a","i","/","a","i",".","g","o","\n","+","+","+"," ","b","/","p","k","g","/","a","i","/","a","i",".","g","o","\n","@","@"," ","-","1",",","3"," ","+","1",",","4"," ","@","@","\n","+","f","u","n","c"," ","r","e","t","r","y","(","n"," ","i","n","t",")"," ","e","r","r","o","r"," ","{","\n","+","\t","r","e","t","u","r","n"," ","n","i","l","\n","+","}","\n","-","f","u","n","c"," ","o","l","d","(",")"," ","{","}">>

ReadmeDiff ==
    <<"d","i","f","f"," ","-","-","g","i","t"," ","a","/","R","E","A","D","M","E",".","m","d"," ","b","/","R","E","A","D","M","E",".","m","d","\n","-","-","-"," ","a","/","R","E","A","D","M","E",".","m","d","\n","+","+","+"," ","b","/","R","E","A","D","M","E",".","m","d","\n","@","@"," ","-","1"," ","+","1",",","2"," ","@","@","\n","+","U","s","a","g","e"," ","n","o","t","e","s","\n","+","M","o","r","e"," ","t","e","x","t">>

NewFileDiff ==
    <<"d","i","f","f"," ","-","-","g","i","t"," ","a","/","c","m","d","/","m","a","i","n",".","g","o"," ","b","/","c","m","d","/","m","a","i","n",".","g","o","\n","n","e","w"," ","f","i","l","e"," ","m","o","d","e"," ","1","0","0","6","4","4","\n","-","-","-"," ","/","d","e","v","/","n","u","l","l","\n","+","+","+"," ","b","/","c","m","d","/","m","a","i","n",".","g","o","\n","+","p","a","c","k","a","g","e"," ","m","a","i","n","\n","+","f","u","n","c"," ","m","a","i","n","(",")"," ","{","}">>

\* The file list that stands for the changes when no diff is included.
PlainChanges == <<"M"," ","p","k","g","/","a","i","/","a","i",".","g","o","\n","M"," ","R","E","A","D","M","E",".","m","d","\n","M"," ","c","m","d","/","m","a","i","n",".","g","o","\n","M"," ","p","k","g","/","g","i","t","/","g","i","t",".","g","o">>

ShortLines == <<"+","a","=","1","\n","+","b","=","2","\n","+","c","=","3","\n","+","d","=","4","\n","+","e","=","5","\n","+","f","=","6","\n","+","g","=","7","\n","+","h","=","8","\n","+","i","=","9","\n","+","j","=","0","\n","+","k","=","1","\n","+","l","=","2">>

DiffTexts ==
    {GoFileDiff,
     GoFileDiff \o <<"\n">> \o ReadmeDiff,
     GoFileDiff \o <<"\n">> \o ReadmeDiff \o <<"\n">> \o NewFileDiff,
     PlainChanges,
     ShortLines}

InputLimits == {0, 4, 10, 25, 60, 9000}

DiffStrategies == {<<"a","u","t","o">>, <<"b","a","t","c","h">>, <<"s","u","m","m","a","r","i","z","e">>, <<"t","r","u","n","c","a","t","e">>, <<"s","m","a","r","t">>}

Contexts ==
    {Context(limit, strat, tokModel, <<"o","l","l","a","m","a">>, <<"l","l","a","m","a","3">>) :
        limit \in InputLimits, strat \in DiffStrategies,
        tokModel \in {<<>>, <<"g","p","t","-","4">>}}

TokenInit ==
    /\ MessageIdle
    /\ CmdIdle
    /\ InitIdle
    /\ ExtractIdle
    /\ changes \in DiffTexts
    /\ ctx \in Contexts
    /\ vocabulary \in BOOLEAN
    /\ inputTokens = 0
    /\ maxTokens = 0
    /\ strategy = <<>>
    /\ processed = NotProcessed
    /\ tpc = "analysis"

\* Lines 877-880.
TokenizerModel == IF ctx.TokenizerModel = <<>> THEN ctx.Model ELSE ctx.TokenizerModel

\* Lines 884-887.
MaxTokens_Configured(configured, providerLimit) == configured

MaxTokens(configured, providerLimit) ==
    IF configured = 0 \/ configured > providerLimit THEN providerLimit ELSE configured

\* int(float64(maxTokens)*0.8)
EightyPercent(n) == (4 * n) \div 5

\* Lines 882-900.
TokenAnalysis ==
    /\ tpc = "analysis"
    /\ inputTokens' = CountTokens(changes, TokenizerModel)
    /\ maxTokens' = MaxTokens(ctx.MaxInputTokens,
                              GetProviderTokenLimit(ctx.Provider, ctx.Model))
    /\ tpc' = IF inputTokens' > maxTokens' THEN "strategy" ELSE "prompt"
    /\ UNCHANGED <<changes, ctx, vocabulary, strategy, processed>>
    /\ UNCHANGED <<messageVars, cmdVars, initVars, extractVars>>

\* Lines 901-909.
SelectStrategy ==
    /\ tpc = "strategy"
    /\ strategy' = IF ctx.DiffStrategy # <<"a","u","t","o">> THEN ctx.DiffStrategy
                   ELSE IF inputTokens < maxTokens * 2 THEN <<"s","u","m","m","a","r","i","z","e">>
                   ELSE <<"b","a","t","c","h">>
    /\ tpc' = "process"
    /\ UNCHANGED <<changes, ctx, vocabulary, inputTokens, maxTokens, processed>>
    /\ UNCHANGED <<messageVars, cmdVars, initVars, extractVars>>

ProcessError == [text |-> <<>>, tokens |-> 0, err |-> "error"]

\* The block of the allocator and the tokens it consumed.
Allocated(block) == [text |-> block.text, tokens |-> block.tokens, err |-> Nil]

\* Line 918.
ProcessBatch ==
    /\ tpc = "process"
    /\ strategy = <<"b","a","t","c","h">>
    /\ \/ processed' = Processed(BatchSummarize(changes, maxTokens \div 10,
                                                 TokenizerModel),
                                  TokenizerModel)
       \/ processed' = ProcessError
    /\ tpc' = "processed"
    /\ UNCHANGED <<changes, ctx, vocabulary, inputTokens, maxTokens, strategy>>
    /\ UNCHANGED <<messageVars, cmdVars, initVars, extractVars>>

\* Line 920.
ProcessSummarize ==
    /\ tpc = "process"
    /\ strategy = <<"s","u","m","m","a","r","i","z","e">>
    /\ \/ processed' = Allocated(BuildContextFromDiff(changes,
                                                       EightyPercent(maxTokens),
                                                       TokenizerModel))
       \/ processed' = ProcessError
    /\ tpc' = "processed"
    /\ UNCHANGED <<changes, ctx, vocabulary, inputTokens, maxTokens, strategy>>
    /\ UNCHANGED <<messageVars, cmdVars, initVars, extractVars>>

\* Line 922.
ProcessTruncate ==
    /\ tpc = "process"
    /\ strategy \notin {<<"b","a","t","c","h">>, <<"s","u","m","m","a","r","i","z","e">>}
    /\ processed' = Processed(TruncateToTokenLimit(changes, EightyPercent(maxTokens),
                                                   TokenizerModel),
                              TokenizerModel)
    /\ tpc' = "processed"
    /\ UNCHANGED <<changes, ctx, vocabulary, inputTokens, maxTokens, strategy>>
    /\ UNCHANGED <<messageVars, cmdVars, initVars, extractVars>>

\* Lines 925-933.
ApplyProcessed_KeepOnError ==
    /\ tpc = "processed"
    /\ changes' = IF processed.err = Nil THEN processed.text ELSE changes
    /\ tpc' = "prompt"
    /\ UNCHANGED <<ctx, vocabulary, inputTokens, maxTokens, strategy, processed>>
    /\ UNCHANGED <<messageVars, cmdVars, initVars, extractVars>>

ApplyProcessed ==
    /\ tpc = "processed"
    /\ changes' = IF processed.err = Nil THEN processed.text
                  ELSE TruncateToTokenLimit(changes, EightyPercent(maxTokens),
                                            TokenizerModel)
    /\ tpc' = "prompt"
    /\ UNCHANGED <<ctx, vocabulary, inputTokens, maxTokens, strategy, processed>>
    /\ UNCHANGED <<messageVars, cmdVars, initVars, extractVars>>

TokenNext ==
    \/ TokenAnalysis
    \/ SelectStrategy
    \/ ProcessBatch
    \/ ProcessSummarize
    \/ ProcessTruncate
    \/ ApplyProcessed

TokenSpec == TokenInit /\ [][TokenNext]_vars

\* C16: when the input diff counts more tokens than maxTokens, the context
\* that goes into the prompt counts at most maxTokens, whichever strategy
\* processed it (batch, summarize, truncate, truncation after an error).
C16_ContextWithinMaxTokens ==
    (tpc = "prompt" /\ inputTokens > maxTokens)
        => CountTokens(changes, TokenizerModel) <= maxTokens

\* The safe limit of the provider and model of the run.
SafeLimit == GetProviderTokenLimit(ctx.Provider, ctx.Model)

\* C22: the effective limit is the configured MaxInputTokens unless that is 0
\* or above the provider limit, and then it is the provider limit; a diff
\* that counts at most that many tokens goes into the prompt unchanged; for a
\* larger one the strategy 'auto' becomes 'summarize' when inputTokens <
\* 2*maxTokens and 'batch' otherwise, any other value is taken as it is, and
\* a strategy other than 'batch' and 'summarize' replaces the diff by its
\* truncation to 80% of maxTokens.
C22_StrategySelection ==
    [][/\ tpc = "analysis" =>
            /\ inputTokens' = CountTokens(changes, TokenizerModel)
            /\ maxTokens' = IF ctx.MaxInputTokens = 0 \/ ctx.MaxInputTokens > SafeLimit
                            THEN SafeLimit
                            ELSE ctx.MaxInputTokens
            /\ IF inputTokens' <= maxTokens'
               THEN tpc' = "prompt" /\ changes' = changes
               ELSE tpc' = "strategy"
       /\ tpc = "strategy" =>
            strategy' = IF ctx.DiffStrategy = <<"a","u","t","o">>
                        THEN IF inputTokens < 2 * maxTokens THEN <<"s","u","m","m","a","r","i","z","e">>
                             ELSE <<"b","a","t","c","h">>
                        ELSE ctx.DiffStrategy
       /\ (tpc = "processed" /\ strategy \notin {<<"b","a","t","c","h">>, <<"s","u","m","m","a","r","i","z","e">>}) =>
            /\ tpc' = "prompt"
            /\ changes' = TruncateToTokenLimit(changes, (8 * maxTokens) \div 10,
                                               TokenizerModel)]_vars

C22_Witness ==
    /\ tpc = "prompt"
    /\ ctx.DiffStrategy = <<"a","u","t","o">>
    /\ strategy = <<"b","a","t","c","h">>
    /\ inputTokens >= 2 * maxTokens
    /\ processed.err = Nil
    /\ changes = processed.text

\* C23: when BatchSummarize or BuildContextFromDiff returns an error the run
\* goes on to the prompt with the original diff truncated to 80% of
\* maxTokens; the processed text replaces the diff only when no error was
\* returned.
C23_FallbackOnProcessError ==
    [][tpc = "processed" =>
            /\ tpc' = "prompt"
            /\ IF processed.err # Nil
               THEN changes' = TruncateToTokenLimit(changes, (8 * maxTokens) \div 10,
                                                   TokenizerModel)
               ELSE changes' = processed.text]_vars

C23_Witness ==
    /\ tpc = "prompt"
    /\ strategy = <<"b","a","t","c","h">>
    /\ processed.err # Nil
    /\ HasSuffix(changes, TruncationMarker)

-----------------------------------------------------------------------------
(* BuildContextFromDiff applied to a diff and a token budget.              *)

MaxBudget == 60

LargeBudget == 2000

NumberedLines(n, text) == [i \in 1..n |-> text \o Itoa(i)]

SectionHead(path) ==
    <<<<"d","i","f","f"," ","-","-","g","i","t"," ","a","/">> \o path \o <<" ","b","/">> \o path,
      <<"-","-","-"," ","a","/">> \o path, <<"+","+","+"," ","b","/">> \o path>>

\* pkg/ai/x.go (+40/-5, modified) and README.md (+2/-0, modified).
ScenarioDiff ==
    Join(SectionHead(<<"p","k","g","/","a","i","/","x",".","g","o">>)
         \o NumberedLines(40, <<"+","\t","c","o","u","n","t"," ","+","="," ">>) \o NumberedLines(5, <<"-","\t","c","o","u","n","t"," ","-","="," ">>)
         \o SectionHead(<<"R","E","A","D","M","E",".","m","d">>)
         \o NumberedLines(2, <<"+","U","s","a","g","e"," ","n","o","t","e"," ">>), <<"\n">>)

AllocatorDiffs ==
    {GoFileDiff,
     ReadmeDiff \o <<"\n">> \o GoFileDiff,
     GoFileDiff \o <<"\n">> \o ReadmeDiff \o <<"\n">> \o NewFileDiff,
     ScenarioDiff}

AllocatorInit ==
    /\ MessageIdle
    /\ CmdIdle
    /\ InitIdle
    /\ ExtractIdle
    /\ changes \in AllocatorDiffs
    /\ maxTokens \in (0..MaxBudget) \cup {LargeBudget}
    /\ vocabulary \in BOOLEAN
    /\ ctx = Context(0, <<"s","u","m","m","a","r","i","z","e">>, <<>>, <<"o","l","l","a","m","a">>, <<"l","l","a","m","a","3">>)
    /\ inputTokens = 0
    /\ strategy = <<"s","u","m","m","a","r","i","z","e">>
    /\ processed = NotProcessed
    /\ tpc = "allocate"

AllocatorCall ==
    /\ tpc = "allocate"
    /\ processed' = Allocated(BuildContextFromDiff(changes, maxTokens, TokenizerModel))
    /\ tpc' = "allocated"
    /\ UNCHANGED <<changes, ctx, vocabulary, inputTokens, maxTokens, strategy>>
    /\ UNCHANGED <<messageVars, cmdVars, initVars, extractVars>>

AllocatorNext == AllocatorCall

AllocatorSpec == AllocatorInit /\ [][AllocatorNext]_vars

\* The diff is one file whose content alone exceeds the whole budget.
SingleOversized(scored, budget) ==
    Len(scored) = 1 /\ scored[1].tokenCount > budget

CostBound(scored, budget, model) ==
    IF SingleOversized(scored, budget)
    THEN budget + CountTokens(StatsLine(scored[1].unit), model)
    ELSE budget

\* C17: the block of the allocator costs at most the budget B, for every
\* B >= 0 and every set of files; when the diff is a single file larger than
\* the budget the cost exceeds B by at most the cost of the stats line.
C17_AllocatorWithinBudget ==
    tpc = "allocated" =>
        processed.tokens
            <= CostBound(Score(DiffParser(changes), TokenizerModel), maxTokens,
                         TokenizerModel)

\* The block holds the raw content of both files, the first before the second.
BothInFull(text, first, second) ==
    /\ Contains(text, first.rawContent)
    /\ Contains(text, second.rawContent)
    /\ Index(text, first.rawContent) < Index(text, second.rawContent)

ScenarioUnits(units) ==
    /\ Len(units) = 2
    /\ units[1].path = <<"p","k","g","/","a","i","/","x",".","g","o">>
    /\ units[1].addedLines = 40 /\ units[1].removedLines = 5
    /\ units[1].status = "modified"
    /\ units[2].path = <<"R","E","A","D","M","E",".","m","d">>
    /\ units[2].addedLines = 2 /\ units[2].removedLines = 0
    /\ units[2].status = "modified"

\* C18: for the diff of pkg/ai/x.go (+40/-5) and README.md (+2/-0), both
\* modified, and a budget large enough for both contents, the allocator
\* emits the raw content of both files, pkg/ai/x.go before README.md.
C18_ScenarioBothInFull ==
    (tpc = "allocated" /\ changes = ScenarioDiff /\ maxTokens = LargeBudget)
        => /\ ScenarioUnits(DiffParser(changes))
           /\ BothInFull(processed.text, DiffParser(changes)[1], DiffParser(changes)[2])

-----------------------------------------------------------------------------
(* One run of the generate command (cmd: generateCmd.RunE) on a working    *)
(* tree: staged, the tracked files with staged changes; modified, the      *)
(* tracked files with unstaged changes; untracked, the files git does not  *)
(* know.  calls is the history of the calls into git and ai.               *)

TrackedFiles == {"a.go", "b.go"}

UntrackedFiles == {"new.txt"}

Messages == {<<>>, <<"f","e","a","t",":"," ","a","d","d"," ","x">>}

Call(fn, ok, fs) == [fn |-> fn, ok |-> ok, files |-> fs]

Called(fn) == {i \in 1..Len(calls) : calls[i].fn = fn}

CmdInit ==
    /\ MessageIdle
    /\ TokenIdle
    /\ InitIdle
    /\ ExtractIdle
    /\ \E isRepo \in BOOLEAN, st \in SUBSET TrackedFiles, md \in SUBSET TrackedFiles,
          un \in SUBSET UntrackedFiles :
          repo = [isRepo |-> isRepo, staged |-> st, modified |-> md,
                  untracked |-> un, commits |-> 0]
    /\ dryRun \in BOOLEAN
    /\ stagedFiles = {}
    /\ message = <<>>
    /\ calls = <<>>
    /\ cmdErr = Nil
    /\ cpc = "isGitRepo"

\* The command returns the error.
Fail(fn, err) ==
    /\ calls' = Append(calls, Call(fn, FALSE, {}))
    /\ cmdErr' = err
    /\ cpc' = "done"

\* git.IsGitRepo, lines 24-26.
IsGitRepo ==
    /\ cpc = "isGitRepo"
    /\ IF repo.isRepo
       THEN /\ calls' = Append(calls, Call("IsGitRepo", TRUE, {}))
            /\ cpc' = "loadConfig"
            /\ UNCHANGED cmdErr
       ELSE Fail("IsGitRepo", "not a git repository")
    /\ UNCHANGED <<repo, dryRun, stagedFiles, message>>
    /\ UNCHANGED <<messageVars, tokenVars, initVars, extractVars>>

\* config.LoadConfig or LoadConfigFromPath, lines 29-41.
LoadConfig ==
    /\ cpc = "loadConfig"
    /\ \/ /\ calls' = Append(calls, Call("LoadConfig", TRUE, {}))
          /\ cpc' = "getStagedFiles"
          /\ UNCHANGED cmdErr
       \/ Fail("LoadConfig", "error loading configuration")
    /\ UNCHANGED <<repo, dryRun, stagedFiles, message>>
    /\ UNCHANGED <<messageVars, tokenVars, initVars, extractVars>>

\* A variant that goes on to stage whatever the staged list holds.
GetStagedFiles_AlwaysStage ==
    /\ cpc = "getStagedFiles"
    /\ \/ /\ calls' = Append(calls, Call("GetStagedFiles", TRUE, repo.staged))
          /\ stagedFiles' = repo.staged
          /\ cpc' = "getModifiedFiles"
          /\ UNCHANGED cmdErr
       \/ /\ Fail("GetStagedFiles", "error getting staged files")
          /\ UNCHANGED stagedFiles
    /\ UNCHANGED <<repo, dryRun, message>>
    /\ UNCHANGED <<messageVars, tokenVars, initVars, extractVars>>

\* git.GetStagedFiles and the test of the list, lines 44-50.
GetStagedFiles ==
    /\ cpc = "getStagedFiles"
    /\ \/ /\ calls' = Append(calls, Call("GetStagedFiles", TRUE, repo.staged))
          /\ stagedFiles' = repo.staged
          /\ cpc' = IF repo.staged = {} THEN "getModifiedFiles" ELSE "getStagedChanges"
          /\ UNCHANGED cmdErr
       \/ /\ Fail("GetStagedFiles", "error getting staged files")
          /\ UNCHANGED stagedFiles
    /\ UNCHANGED <<repo, dryRun, message>>
    /\ UNCHANGED <<messageVars, tokenVars, initVars, extractVars>>

\* git diff --name-only HEAD: the tracked files that differ from HEAD.
ModifiedFiles == repo.staged \cup repo.modified

\* git.GetModifiedFiles and the test of the list, lines 54-61.
GetModifiedFiles ==
    /\ cpc = "getModifiedFiles"
    /\ \/ /\ calls' = Append(calls, Call("GetModifiedFiles", TRUE, ModifiedFiles))
          /\ IF ModifiedFiles = {}
             THEN /\ cmdErr' = "no modified files found"
                  /\ cpc' = "done"
             ELSE /\ cpc' = "stageAllModified"
                  /\ UNCHANGED cmdErr
       \/ Fail("GetModifiedFiles", "error getting modified files")
    /\ UNCHANGED <<repo, dryRun, stagedFiles, message>>
    /\ UNCHANGED <<messageVars, tokenVars, initVars, extractVars>>

\* git add -u
AddUpdated(r) ==
    [r EXCEPT !.staged = r.staged \cup r.modified, !.modified = {}]

\* git.StageAllModified, lines 64-67.
StageAllModified_NotInDryRun ==
    /\ cpc = "stageAllModified"
    /\ \/ /\ repo' = IF dryRun THEN repo ELSE AddUpdated(repo)
          /\ calls' = IF dryRun THEN calls
                      ELSE Append(calls, Call("StageAllModified", TRUE, repo.modified))
          /\ cpc' = "getStagedFilesAgain"
          /\ UNCHANGED cmdErr
       \/ /\ Fail("StageAllModified", "error staging files")
          /\ UNCHANGED repo
    /\ UNCHANGED <<dryRun, stagedFiles, message>>
    /\ UNCHANGED <<messageVars, tokenVars, initVars, extractVars>>

StageAllModified ==
    /\ cpc = "stageAllModified"
    /\ \/ /\ repo' = AddUpdated(repo)
          /\ calls' = Append(calls, Call("StageAllModified", TRUE, repo.modified))
          /\ cpc' = "getStagedFilesAgain"
          /\ UNCHANGED cmdErr
       \/ /\ Fail("StageAllModified", "error staging files")
          /\ UNCHANGED repo
    /\ UNCHANGED <<dryRun, stagedFiles, message>>
    /\ UNCHANGED <<messageVars, tokenVars, initVars, extractVars>>

\* git.GetStagedFiles after the staging, lines 70-75.
GetStagedFilesAgain ==
    /\ cpc = "getStagedFilesAgain"
    /\ \/ /\ calls' = Append(calls, Call("GetStagedFiles", TRUE, repo.staged))
          /\ stagedFiles' = repo.staged
          /\ cpc' = "getStagedChanges"
          /\ UNCHANGED cmdErr
       \/ /\ Fail("GetStagedFiles", "error getting staged files after staging")
          /\ UNCHANGED stagedFiles
    /\ UNCHANGED <<repo, dryRun, message>>
    /\ UNCHANGED <<messageVars, tokenVars, initVars, extractVars>>

\* git.GetStagedChanges, lines 79-82.
GetStagedChanges ==
    /\ cpc = "getStagedChanges"
    /\ \/ /\ calls' = Append(calls, Call("GetStagedChanges", TRUE, repo.staged))
          /\ cpc' = "generate"
          /\ UNCHANGED cmdErr
       \/ Fail("GetStagedChanges", "error getting staged changes")
    /\ UNCHANGED <<repo, dryRun, stagedFiles, message>>
    /\ UNCHANGED <<messageVars, tokenVars, initVars, extractVars>>

\* ai.GenerateCommitMessage(cfg, stagedFiles, changes), lines 86-89.
Generate ==
    /\ cpc = "generate"
    /\ \/ /\ message' \in Messages
          /\ calls' = Append(calls, Call("GenerateCommitMessage", TRUE, stagedFiles))
          /\ cpc' = "finish"
          /\ UNCHANGED cmdErr
       \/ /\ Fail("GenerateCommitMessage", "error generating commit message")
          /\ UNCHANGED message
    /\ UNCHANGED <<repo, dryRun, stagedFiles>>
    /\ UNCHANGED <<messageVars, tokenVars, initVars, extractVars>>

\* git.Commit: an empty message is refused; git commit records the staged
\* changes or fails.
Commit(msg) ==
    \/ /\ msg # <<>>
       /\ repo' = [repo EXCEPT !.staged = {}, !.commits = repo.commits + 1]
       /\ calls' = Append(calls, Call("Commit", TRUE, repo.staged))
       /\ cmdErr' = Nil
    \/ /\ repo' = repo
       /\ calls' = Append(calls, Call("Commit", FALSE, {}))
       /\ cmdErr' = IF msg = <<>> THEN "commit message cannot be empty"
                    ELSE "git commit failed"

\* A variant that commits in dry-run mode too.
Finish_IgnoreDryRun ==
    /\ cpc = "finish"
    /\ Commit(message)
    /\ cpc' = "done"
    /\ UNCHANGED <<dryRun, stagedFiles, message>>
    /\ UNCHANGED <<messageVars, tokenVars, initVars, extractVars>>

\* The dry-run test and git.Commit, lines 92-106.
Finish ==
    /\ cpc = "finish"
    /\ IF dryRun
       THEN UNCHANGED <<repo, calls, cmdErr>>
       ELSE Commit(message)
    /\ cpc' = "done"
    /\ UNCHANGED <<dryRun, stagedFiles, message>>
    /\ UNCHANGED <<messageVars, tokenVars, initVars, extractVars>>

CmdNext ==
    \/ IsGitRepo
    \/ LoadConfig
    \/ GetStagedFiles
    \/ GetModifiedFiles
    \/ StageAllModified
    \/ GetStagedFilesAgain
    \/ GetStagedChanges
    \/ Generate
    \/ Finish

CmdSpec == CmdInit /\ [][CmdNext]_vars

\* A call of fn that returned without error precedes the call at position i.
ReturnedBefore(fn, i) == \E j \in 1..(i - 1) : calls[j].fn = fn /\ calls[j].ok

\* C19: with --dry-run the generate command never calls git.Commit; without
\* it git.Commit is called at most once, and only after
\* ai.GenerateCommitMessage returned without error.
C19_CommitOnlyAfterGenerate ==
    /\ dryRun => Called("Commit") = {}
    /\ Cardinality(Called("Commit")) <= 1
    /\ \A i \in Called("Commit") : ReturnedBefore("GenerateCommitMessage", i)

C19_Witness ==
    /\ cpc = "done"
    /\ ~dryRun
    /\ Called("Commit") # {}
    /\ repo.commits = 1

\* The first list of staged files that git returned to the command.
FirstStaged == calls[SetMin(Called("GetStagedFiles"))]

NothingModified ==
    \E i \in Called("GetModifiedFiles") : calls[i].ok /\ calls[i].files = {}

\* C20: the command calls StageAllModified only when the staged list was
\* empty, never when a file is staged; with nothing staged and no tracked
\* file modified it returns an error without staging or committing; the
\* staging adds the tracked modified files and never an untracked file.
C20_StagesOnlyWhenNothingStaged ==
    /\ [](Called("StageAllModified") # {}
            => FirstStaged.ok /\ FirstStaged.files = {})
    /\ []((cpc = "done" /\ NothingModified)
            => /\ cmdErr # Nil
               /\ Called("StageAllModified") = {}
               /\ Called("Commit") = {}
               /\ repo.commits = 0)
    /\ [][repo'.staged # repo.staged /\ repo'.commits = repo.commits
            => /\ repo'.staged = repo.staged \cup repo.modified
               /\ repo'.untracked = repo.untracked
               /\ repo'.staged \cap repo.untracked = {}]_vars

C20_Witness ==
    /\ cpc = "getStagedChanges"
    /\ Called("StageAllModified") # {}
    /\ stagedFiles = {"a.go", "b.go"}
    /\ repo.untracked = {"new.txt"}

\* The call of StageAllModified that returned without error.
Staging == calls[SetMin(Called("StageAllModified"))]

\* C28: --dry-run suppresses only the commit.  A dry run that found nothing
\* staged and a tracked file modified has called StageAllModified once it
\* previews the message, and the files it staged are staged in the index;
\* a successful dry run has generated the message; in a dry run the
\* repository changes by that staging and by nothing else.
C28_DryRunStillStages ==
    /\ []((cpc = "done" /\ dryRun /\ cmdErr = Nil /\ FirstStaged.files = {})
            => /\ Called("StageAllModified") # {}
               /\ Staging.ok
               /\ Staging.files # {}
               /\ repo.staged = Staging.files)
    /\ []((cpc = "done" /\ dryRun /\ cmdErr = Nil)
            => \E i \in Called("GenerateCommitMessage") : calls[i].ok)
    /\ [][(dryRun /\ repo' # repo)
            => (cpc = "stageAllModified" /\ repo' = AddUpdated(repo))]_vars

C28_Witness ==
    /\ cpc = "done"
    /\ dryRun
    /\ cmdErr = Nil
    /\ Called("StageAllModified") # {}
    /\ Called("Commit") = {}
    /\ repo.staged = {"a.go"}
    /\ repo.commits = 0
    /\ message = <<"f","e","a","t",":"," ","a","d","d"," ","x">>

-----------------------------------------------------------------------------
(* The init command: cmd, initCmd.RunE, and config.SaveExampleConfig.      *)

\* A path that holds no file.
Absent == "absent"

\* A path that cannot be reached (a directory on the way denies access):
\* os.Stat and os.WriteFile both fail on it.
Unreachable == "unreachable"

\* The text SaveExampleConfig writes (its first line stands for the YAML).
ExampleConfig == <<"#"," ","C","o","m","m","i","t","r","o","n"," ","c","o","n","f","i","g","u","r","a","t","i","o","n"," ","f","i","l","e">>

UserConfig == <<"a","i",":","\n"," "," ","p","r","o","v","i","d","e","r",":"," ","o","l","l","a","m","a">>

HomeDir == <<"/","h","o","m","e","/","u">>

\* filepath.Join(homeDir, ".commitronrc")
HomeConfigPath(dir) == dir \o <<"/",".","c","o","m","m","i","t","r","o","n","r","c">>

CustomPath == <<"c","f","g",".","y","a","m","l">>

ConfigPaths == {HomeConfigPath(HomeDir), CustomPath}

FileStates == {Absent, Unreachable, ExampleConfig, UserConfig}

ErrHomeDir == "Error getting home directory"

ErrExists == "Configuration file already exists"

ErrCreate == "Error creating configuration file"

InitInit ==
    /\ configPath \in {<<>>, CustomPath}
    /\ force \in BOOLEAN
    /\ home \in {[dir |-> HomeDir, err |-> Nil], [dir |-> <<>>, err |-> "no home"]}
    /\ disk \in [ConfigPaths -> FileStates]
    /\ targetPath = <<>>
    /\ initErr = Nil
    /\ ipc = "start"
    /\ MessageIdle
    /\ TokenIdle
    /\ CmdIdle
    /\ ExtractIdle

\* Determine config path: the --config flag, or .commitronrc in the home.
ResolvePath ==
    /\ ipc = "start"
    /\ IF configPath # <<>>
       THEN /\ targetPath' = configPath
            /\ ipc' = "resolved"
            /\ UNCHANGED initErr
       ELSE IF home.err # Nil
            THEN /\ initErr' = ErrHomeDir
                 /\ ipc' = "done"
                 /\ UNCHANGED targetPath
            ELSE /\ targetPath' = HomeConfigPath(home.dir)
                 /\ ipc' = "resolved"
                 /\ UNCHANGED initErr
    /\ UNCHANGED <<configPath, force, home, disk>>
    /\ UNCHANGED <<messageVars, tokenVars, cmdVars, extractVars>>

\* os.Stat(path): nil when the path holds a file.
Stat(path) ==
    IF disk[path] = Absent THEN "not exist"
    ELSE IF disk[path] = Unreachable THEN "permission denied"
    ELSE Nil

\* Check if config file already exists.
CheckExists_IgnoreForce ==
    /\ ipc = "resolved"
    /\ ipc' = "checked"
    /\ UNCHANGED initErr
    /\ UNCHANGED <<configPath, force, home, disk, targetPath>>
    /\ UNCHANGED <<messageVars, tokenVars, cmdVars, extractVars>>

CheckExists ==
    /\ ipc = "resolved"
    /\ IF Stat(targetPath) = Nil /\ ~force
       THEN /\ initErr' = ErrExists
            /\ ipc' = "done"
       ELSE /\ ipc' = "checked"
            /\ UNCHANGED initErr
    /\ UNCHANGED <<configPath, force, home, disk, targetPath>>
    /\ UNCHANGED <<messageVars, tokenVars, cmdVars, extractVars>>

\* os.WriteFile(path, data, 0644): creates or truncates the file.
WriteFile(path, data) ==
    IF disk[path] = Unreachable
    THEN /\ initErr' = ErrCreate
         /\ UNCHANGED disk
    ELSE /\ disk' = [disk EXCEPT ![path] = data]
         /\ UNCHANGED initErr

\* Create example config, then report and return.
SaveExampleConfig ==
    /\ ipc = "checked"
    /\ WriteFile(targetPath, ExampleConfig)
    /\ ipc' = "done"
    /\ UNCHANGED <<configPath, force, home, targetPath>>
    /\ UNCHANGED <<messageVars, tokenVars, cmdVars, extractVars>>

InitNext == ResolvePath \/ CheckExists \/ SaveExampleConfig

InitSpec == InitInit /\ [][InitNext]_vars

\* The write of the example configuration to the target path.
WritesExample ==
    /\ ipc = "checked"
    /\ disk' = [disk EXCEPT ![targetPath] = ExampleConfig]

\* C21: the init command never overwrites an existing configuration file
\* unless --force is given: the disk changes, and the command succeeds, only
\* by writing the example configuration to the target path when that path
\* held no file or force is true; when the target path holds a file and force
\* is false the command returns an error and leaves the disk as it was.
C21_NoOverwriteWithoutForce ==
    [][/\ (disk' # disk \/ (ipc' = "done" /\ initErr' = Nil))
            => (WritesExample /\ (disk[targetPath] = Absent \/ force))
       /\ (ipc = "resolved" /\ disk[targetPath] \in {ExampleConfig, UserConfig} /\ ~force)
            => (ipc' = "done" /\ initErr' = ErrExists /\ disk' = disk)]_vars

C21_Witness ==
    /\ ipc = "done"
    /\ ~force
    /\ initErr = ErrExists
    /\ disk[targetPath] = UserConfig

-----------------------------------------------------------------------------
(* extractJSON (ai.go 478-500) on every short text over braces and a       *)
(* letter.                                                                 *)

MaxTextLen == 5

BraceAlphabet == {"{", "}", "a"}

BraceTexts == UNION {[1..n -> BraceAlphabet] : n \in 0..MaxTextLen}

ExtractInit ==
    /\ braceText \in BraceTexts
    /\ extracted = <<>>
    /\ xpc = "extract"
    /\ MessageIdle
    /\ TokenIdle
    /\ CmdIdle
    /\ InitIdle

ExtractCall ==
    /\ xpc = "extract"
    /\ extracted' = extractJSON(braceText)
    /\ xpc' = "extracted"
    /\ UNCHANGED braceText
    /\ UNCHANGED <<messageVars, tokenVars, cmdVars, initVars>>

ExtractNext == ExtractCall

ExtractSpec == ExtractInit /\ [][ExtractNext]_vars

\* Opening minus closing braces among the first k characters of s.
BraceDepth(s, k) ==
    Cardinality({i \in 1..k : s[i] = "{"}) - Cardinality({i \in 1..k : s[i] = "}"})

\* s starts with "{" and ends with the "}" that matches it.
IsBalancedObject(s) ==
    /\ Len(s) >= 2
    /\ s[1] = "{"
    /\ BraceDepth(s, Len(s)) = 0
    /\ \A k \in 1..(Len(s) - 1) : BraceDepth(s, k) > 0

\* The offsets at which a balanced object starts.
BalancedStarts(s) ==
    {i \in 0..(Len(s) - 1) : \E j \in (i + 2)..Len(s) : IsBalancedObject(Slice(s, i, j))}

BalancedFrom(s, i) ==
    Slice(s, i, CHOOSE j \in (i + 2)..Len(s) : IsBalancedObject(Slice(s, i, j)))

\* The earliest balanced object of s, or the empty text.
FirstBalanced(s) ==
    IF BalancedStarts(s) = {} THEN <<>> ELSE BalancedFrom(s, SetMin(BalancedStarts(s)))

\* C24: extractJSON returns the earliest balanced brace-delimited object of
\* the text, also when an earlier "{" is never closed, and the empty text
\* only when the text holds no balanced object.
C24_FirstBalancedObject ==
    xpc = "extracted" => extracted = FirstBalanced(braceText)

-----------------------------------------------------------------------------
(* Further properties of the message pipeline.                             *)

\* The step that parses the response.
ParseStep == pc = "parse" /\ pc' # "parse"

\* C25: ParseCommitMessageJSON never returns an error, because text parsing
\* always yields a non-empty Type; so the parse step of GenerateCommitMessage
\* takes the parsed message as it is and goes on, and neither splits the
\* response at ": " nor returns the raw response.
C25_ParseNeverFails ==
    [][ParseStep =>
            /\ parsed'.err = Nil
            /\ parsed'.strategy = "text" => parsed'.msg.Type # <<>>
            /\ commitMsg' = parsed'.msg
            /\ pc' = "defaultBody"
            /\ result' = NoResult]_vars

C25_Witness ==
    /\ pc = "defaultBody"
    /\ parsed.strategy = "text"
    /\ parsed.err = Nil
    /\ parsed.msg.Subject = <<>>
    /\ parsed.msg.Type = <<"c","h","o","r","e">>
    /\ SubjectIndex(Split(rawResponse, <<"\n">>)) >= 0

\* The step of the repair pass.
RepairStep == pc = "repair" /\ pc' = "revalidate"

\* C26: the repair pass keeps the composed header within the limit: a header
\* of at most MaxLength characters when length enforcement has ended is still
\* at most MaxLength characters long after fixConventionalCommitIssues.
C26_RepairKeepsCeiling ==
    [][(RepairStep /\ Len(FormatHeader(commitMsg, cfg)) <= cfg.MaxLength)
            => Len(FormatHeader(commitMsg', cfg)) <= cfg.MaxLength]_vars

\* The step of length enforcement on a message of conventional mode.
LengthStep == pc = "subjectLength" /\ pc' # "subjectLength" /\ ConventionalMode

\* C27: in conventional mode the length that length enforcement computes
\* and compares with MaxLength is the length of the header line that
\* FormatCommitMessage renders for the same message, also when Type is
\* empty; a message that enforcement leaves as it is has that length
\* recorded.
C27_ComputedLengthIsRendered ==
    [][LengthStep =>
            /\ ComputeSubjectLength(commitMsg, cfg) = Len(FormatHeader(commitMsg, cfg))
            /\ commitMsg' = commitMsg
                  => subjectLength' = Len(FormatHeader(commitMsg', cfg))]_vars

\* The text is the header alone or the header, a blank line and a body.
HasHeader(msg, header) == msg = header \/ HasPrefix(msg, header \o <<"\n","\n">>)

\* C29: for a convention other than conventional the message is never
\* validated nor repaired, and the header of the returned message is the
\* Subject alone (the parsed one whenever it is within MaxLength): the type
\* and the scope that parsing split off are not in the output.
C29_OtherConventionsSubjectOnly ==
    ~ConventionalMode =>
        /\ nValidate = 0
        /\ nFix = 0
        /\ Returned =>
              /\ HasHeader(result.msg, commitMsg.Subject)
              /\ Len(parsed.msg.Subject) <= cfg.MaxLength
                    => HasHeader(result.msg, parsed.msg.Subject)

C29_Witness ==
    /\ Returned
    /\ cfg.Convention = "none"
    /\ content = <<"f","e","a","t","(","a","p","i",")",":"," ","a","d","d"," ","x">>
    /\ parsed.msg.Type = <<"f","e","a","t">>
    /\ parsed.msg.Scope = <<"a","p","i">>
    /\ result.msg = <<"a","d","d"," ","x">>

\* The lines of the text that are not blank, trimmed, in order.
RECURSIVE ContentLines(_)
ContentLines(lines) ==
    IF lines = <<>> THEN <<>>
    ELSE IF TrimSpace(lines[1]) = <<>> THEN ContentLines(Tail(lines))
    ELSE <<TrimSpace(lines[1])>> \o ContentLines(Tail(lines))

\* Texts that the clean-up of the body rewrites or empties.
BodyNoise == {<<"<","d","e","s","c","r","i","p","t","i","v","e"," ","b","o","d","y">>, <<"e","x","p","l","a","n","a","t">>, <<"<","c","o","m","m","i","t"," ","m","e","s","s","a","g","e",">">>, <<"<","o","p","t","i","o","n","a","l"," ","b","o","d","y",">">>,
              <<"[","s","u","b","j","e","c","t","]">>, <<"[","b","o","d","y","]">>, <<Backtick>>, <<"b","o","d","y",":">>}

PlainText(t) == \A n \in BodyNoise : ~Contains(ToLower(t), n)

\* C30: text parsing of a response without markers and without placeholder
\* text loses no content line: the non-blank lines after the first line are
\* the non-blank lines of Body, in order.
C30_NoContentLineLost ==
    (pc \notin {"receive", "parse"} /\ parsed.strategy = "text" /\ PlainText(rawResponse))
        => ContentLines(Split(parsed.msg.Body, <<"\n">>))
               = ContentLines(Tail(Split(rawResponse, <<"\n">>)))

====
